---- MODULE Spec2Model ----
(***************************************************************************)
(* State-machine model of the HYDROLIB plugin code:                        *)
(*   - the cross-section workflow (workflows/crosssections.py),            *)
(*   - the D-Flow FM model plugin (hydromt_delft3dfm/dflowfm.py),          *)
(*   - the mesh helpers (dhydamo/geometry/mesh.py).                        *)
(* Numbers with decimals (widths, levels, lengths) are integers counting   *)
(* hundredths; tables (GeoDataFrames) are sequences of records.            *)
(***************************************************************************)
EXTENDS Integers, Sequences, FiniteSets, TLC

(* ------------------------------ bounds --------------------------------- *)
\* largest number of features in one data source
MaxFeatures == 2
\* largest number of setup_* calls in one behaviour of the plugin
MaxCalls == 2

(* --------------------------- generic helpers --------------------------- *)
\* a pandas null (NaN / None / absent value)
NoData == -99999

Range(s) == {s[i] : i \in 1..Len(s)}

RECURSIVE Flatten(_)
Flatten(ss) == IF ss = <<>> THEN <<>> ELSE Head(ss) \o Flatten(Tail(ss))

\* pandas DataFrame.drop_duplicates(): keep the first of equal rows
RECURSIVE drop_duplicates(_)
drop_duplicates(rows) ==
  IF rows = <<>> THEN <<>>
  ELSE LET init == drop_duplicates(SubSeq(rows, 1, Len(rows) - 1))
           last_ == rows[Len(rows)]
       IN IF last_ \in Range(init) THEN init ELSE Append(init, last_)

\* Series.unique(): the distinct values in order of first appearance
unique(s) == drop_duplicates(s)

\* sequences over S of length lo..hi
SeqsOf(S, lo, hi) == UNION {[1..n -> S] : n \in lo..hi}

(* ------------------- workflows/crosssections.py ------------------------ *)
\* "{:,.3f}".format(v): three decimals, exact for hundredths
Fmt3(v) == ToString(v \div 100) \o "." \o
           (IF v % 100 < 10 THEN "0" ELSE "") \o ToString(v % 100) \o "0"

\* "{:,.1f}".format(v): rounded to one decimal
Fmt1(v) == LET t == (v + 5) \div 10
           IN ToString(t \div 10) \o "." \o ToString(t % 10)

\* "{:.2f}".format(v)
Fmt2(v) == ToString(v \div 100) \o "." \o
           (IF v % 100 < 10 THEN "0" ELSE "") \o ToString(v % 100)

rect_definitionid(x) ==
  "rect_h" \o Fmt3(x.height) \o "_w" \o Fmt3(x.width) \o "_c" \o x.closed \o "_branch"

trapz_definitionid(x) ==
  "trapz_h" \o Fmt1(x.height) \o "_bw" \o Fmt1(x.width) \o "_tw" \o Fmt1(x.t_width)
     \o "_c" \o x.closed \o "_branch"

circ_definitionid(x) == "circ_d" \o Fmt3(x.diameter) \o "_branch"

\* the columns of the combined crsloc/crsdef table; a column a shape does not
\* set is null after pd.concat
EmptyCrsRow ==
  [crsloc_id |-> "", crsloc_branchId |-> "", crsloc_chainage |-> NoData,
   crsloc_shift |-> NoData, crsloc_definitionId |-> "", geometry |-> <<>>,
   crsdef_id |-> "", crsdef_type |-> "", crsdef_branchId |-> "",
   crsdef_height |-> NoData, crsdef_width |-> NoData, crsdef_diameter |-> NoData,
   crsdef_closed |-> "", crsdef_frictionId |-> "",
   crsdef_numlevels |-> NoData, crsdef_levels |-> "", crsdef_flowwidths |-> "",
   crsdef_totalwidths |-> "", crsdef_thalweg |-> NoData]

\* one crslocs record of a _set_*_crs loop
crsloc_record(c) ==
  [crsloc_id |-> c.branch_id \o "_" \o Fmt2(c.branch_offset),
   crsloc_branchId |-> c.branch_id,
   crsloc_chainage |-> c.branch_offset,
   crsloc_shift |-> c.shift,
   crsloc_definitionId |-> c.definitionid,
   geometry |-> c.geometry]

\* pd.merge(crslocs, crsdefs, how="left", left_on=[crsloc_branchId,
\* crsloc_definitionId], right_on=[crsdef_branchId, crsdef_id]): every location
\* row is paired with every definition row of the same key, in order
merge_loc_def(crslocs, crsdefs) ==
  Flatten([i \in 1..Len(crslocs) |->
    LET l == crslocs[i]
        m == SelectSeq(crsdefs, LAMBDA d : d.crsdef_branchId = l.crsloc_branchId
                                           /\ d.crsdef_id = l.crsloc_definitionId)
    IN [j \in 1..Len(m) |->
          [f \in DOMAIN EmptyCrsRow |->
             IF f \in DOMAIN l THEN l[f]
             ELSE IF f \in DOMAIN m[j] THEN m[j][f] ELSE EmptyCrsRow[f]]]])

_set_circle_crs(crosssections) ==
  merge_loc_def(
    [i \in 1..Len(crosssections) |-> crsloc_record(crosssections[i])],
    [i \in 1..Len(crosssections) |->
       LET c == crosssections[i]
       IN [crsdef_id |-> c.definitionid, crsdef_type |-> "circle",
           crsdef_branchId |-> c.branch_id, crsdef_diameter |-> c.diameter,
           crsdef_closed |-> "yes", crsdef_frictionId |-> c.frictionId]])

_set_rectangle_crs(crosssections) ==
  merge_loc_def(
    [i \in 1..Len(crosssections) |-> crsloc_record(crosssections[i])],
    [i \in 1..Len(crosssections) |->
       LET c == crosssections[i]
       IN [crsdef_id |-> c.definitionid, crsdef_type |-> "rectangle",
           crsdef_branchId |-> c.branch_id, crsdef_height |-> c.height,
           crsdef_width |-> c.width, crsdef_closed |-> c.closed,
           crsdef_frictionId |-> c.frictionId]])

_set_trapezoid_crs(crosssections) ==
  merge_loc_def(
    [i \in 1..Len(crosssections) |-> crsloc_record(crosssections[i])],
    [i \in 1..Len(crosssections) |->
       LET c == crosssections[i]
           levels == "0 " \o Fmt3(c.height) \o "000"
           flowwidths == Fmt3(c.width) \o "000 " \o Fmt3(c.t_width) \o "000"
       IN [crsdef_id |-> c.definitionid, crsdef_type |-> "zw",
           crsdef_branchId |-> c.branch_id, crsdef_numlevels |-> 2,
           crsdef_levels |-> levels, crsdef_flowwidths |-> flowwidths,
           crsdef_totalwidths |-> flowwidths, crsdef_frictionId |-> c.frictionId,
           crsdef_closed |-> c.closed]])

\* the rows of `crosssections` with the given shape, with their definitionid
shape_rows(crosssections, shape) ==
  LET sel == SelectSeq(crosssections, LAMBDA c : c.shape = shape)
      definitionid(c) == IF shape = "rectangle" THEN rect_definitionid(c)
                         ELSE IF shape = "trapezoid" THEN trapz_definitionid(c)
                         ELSE circ_definitionid(c)
  IN [i \in 1..Len(sel) |->
        [f \in DOMAIN sel[i] \cup {"definitionid"} |->
           IF f = "definitionid" THEN definitionid(sel[i]) ELSE sel[i][f]]]

\* the working table at the branch mid points (midpoint=True)
midpoint_rows(branches) ==
  [i \in 1..Len(branches) |->
     LET b == branches[i]
     IN [branch_id |-> b.branchId, branch_offset |-> b.length \div 2,
         shift |-> b.bedlev, geometry |-> <<b.length, b.length \div 2>>,
         shape |-> b.shape, height |-> b.height, width |-> b.width,
         t_width |-> b.t_width, closed |-> b.closed, diameter |-> b.diameter,
         frictionId |-> b.frictionId]]

\* the working table at both branch ends (midpoint=False): all upstream rows,
\* then all downstream rows; both take Point(l.coords[0]) as geometry
updn_rows(branches) ==
  [i \in 1..Len(branches) |->
     LET b == branches[i]
     IN [branch_id |-> b.branchId, branch_offset |-> 0,
         shift |-> b.invlev_up, geometry |-> <<b.length, 0>>,
         shape |-> b.shape, diameter |-> b.diameter, frictionId |-> b.frictionId]]
  \o
  [i \in 1..Len(branches) |->
     LET b == branches[i]
     IN [branch_id |-> b.branchId, branch_offset |-> b.length,
         shift |-> b.invlev_dn, geometry |-> <<b.length, 0>>,
         shape |-> b.shape, diameter |-> b.diameter, frictionId |-> b.frictionId]]

\* the per-shape loop of set_branch_crosssections: the concatenation of the
\* tables of the supported shapes, in the order the shapes first appear
shape_loop(crosssections, midpoint) ==
  LET all_shapes == unique([i \in 1..Len(crosssections) |-> crosssections[i].shape])
  IN Flatten([k \in 1..Len(all_shapes) |->
       LET shape == all_shapes[k]
       IN IF midpoint /\ shape = "rectangle"
            THEN _set_rectangle_crs(shape_rows(crosssections, shape))
          ELSE IF midpoint /\ shape = "trapezoid"
            THEN _set_trapezoid_crs(shape_rows(crosssections, shape))
          ELSE IF ~midpoint /\ shape = "circle"
            THEN _set_circle_crs(shape_rows(crosssections, shape))
          ELSE <<>>])

\* crosssections_["crsdef_closed"].replace({"yes": 1, "no": 0})
replace_closed(v) == IF v = "yes" THEN "1" ELSE IF v = "no" THEN "0" ELSE v

\* set_branch_crosssections raises KeyError when no row was built: the empty
\* frame has no crsdef_closed column
set_branch_crosssections_raises(branches, midpoint) ==
  shape_loop(IF midpoint THEN midpoint_rows(branches) ELSE updn_rows(branches),
             midpoint) = <<>>

set_branch_crosssections(branches, midpoint) ==
  LET crosssections == IF midpoint THEN midpoint_rows(branches)
                       ELSE updn_rows(branches)
      crosssections_ == shape_loop(crosssections, midpoint)
  IN drop_duplicates(
       [i \in 1..Len(crosssections_) |->
          [crosssections_[i] EXCEPT !.crsdef_thalweg = 0,
                                    !.crsdef_closed = replace_closed(@)]])


(* --------------- data sources and the missing workflow helpers --------- *)
BranchIds == {"a", "b"}

\* the branch types validate_branches knows
BranchTypes == {"river", "channel", "pipe", "tunnel", "sewerconnection"}

StrCols == {"branchId", "branchType", "shape", "closed", "frictionId", "frictionType",
            "frictionValue"}

IsNull(f, v) == IF f \in StrCols THEN v = "" ELSE v = NoData

\* a feature with every attribute null
NullRow ==
  [branchId |-> "", branchType |-> "", length |-> NoData, branchOrder |-> NoData,
   shape |-> "", width |-> NoData, height |-> NoData, t_width |-> NoData,
   closed |-> "", diameter |-> NoData, bedlev |-> NoData,
   invlev_up |-> NoData, invlev_dn |-> NoData,
   frictionId |-> "", frictionType |-> "", frictionValue |-> ""]

\* a data source of the data catalog: the columns it has and its features
Source(cols, rows) == [cols |-> cols, rows |-> rows]

Feature(id, typ, len, up, dn) ==
  [NullRow EXCEPT !.branchId = id, !.branchType = typ, !.length = len,
                  !.invlev_up = up, !.invlev_dn = dn]

\* data_catalog.get_geodataframe: sources with the features named by `ids`,
\* with or without a branchId column, with a branchType column holding `typ`
\* (none for typ = ""), and with or without invert levels
SourceCols(hasId, typ, withInv) ==
  {"geometry"} \cup (IF hasId THEN {"branchId"} ELSE {})
               \cup (IF typ # "" THEN {"branchType"} ELSE {})
               \cup (IF withInv THEN {"invlev_up", "invlev_dn"} ELSE {})

\* the source with the given branch ids
NamedSource(ids, typ, withInv) ==
  Source(SourceCols(TRUE, typ, withInv),
         [i \in 1..Len(ids) |->
            Feature(ids[i], typ, 20000, IF withInv THEN -200 ELSE NoData,
                                        IF withInv THEN -230 ELSE NoData)])

IdSources(typ, withInv) ==
  { NamedSource(ids, typ, withInv) : ids \in SeqsOf(BranchIds, 0, MaxFeatures) }
  \cup
  { Source(SourceCols(FALSE, typ, withInv),
           [i \in 1..n |->
              Feature("", typ, 20000, IF withInv THEN -200 ELSE NoData,
                                      IF withInv THEN -230 ELSE NoData)])
      : n \in 1..MaxFeatures }

\* a source with a branchType column holding a river and a pipe
TypedSource ==
  Source({"geometry", "branchId", "branchType"},
         <<Feature("a", "river", 20000, NoData, NoData),
           Feature("b", "pipe", 20000, NoData, NoData)>>)

\* a source with a line of length zero, and one with an unknown branch type
ZeroLengthSource ==
  Source({"geometry", "branchId"}, <<Feature("a", "", 0, NoData, NoData)>>)

UnknownTypeSource ==
  Source({"geometry", "branchId", "branchType"},
         <<Feature("a", "weir", 20000, NoData, NoData)>>)

\* a source whose invert levels are only partly filled in
PartialInvSource ==
  Source({"geometry", "branchId", "invlev_up", "invlev_dn"},
         <<Feature("a", "", 20000, -200, NoData)>>)

\* the packaged defaults tables (rivers_defaults.csv, pipes_defaults.csv,
\* channels_defaults.csv), one row per branchType
rivers_defaults ==
  [branchOrder |-> -1, shape |-> "rectangle", width |-> 3000, t_width |-> 5000,
   height |-> 100, bedlev |-> -150, closed |-> "no"]

channels_defaults ==
  [branchOrder |-> -1, shape |-> "trapezoid", width |-> 1000, t_width |-> 2000,
   height |-> 100, bedlev |-> -100, closed |-> "no"]

pipes_defaults == [branchOrder |-> -1]

\* update_data_columns_attributes(gdf, defaults, brtype): joins the defaults
\* of brtype onto the branches of that type: fills every column of the
\* defaults that is absent or null, and overwrites nothing
update_data_columns_attributes(rows, defaults, brtype) ==
  [i \in 1..Len(rows) |->
     [f \in DOMAIN rows[i] |->
        IF rows[i].branchType = brtype /\ f \in DOMAIN defaults /\ IsNull(f, rows[i][f])
          THEN defaults[f]
          ELSE rows[i][f]]]

\* process_branches: the branches with their geometry processed, and the
\* table of their end nodes (here one node entry per branch)
process_branches(rows) ==
  [branches |-> rows,
   branches_nodes |-> [i \in 1..Len(rows) |-> rows[i].branchId]]

\* validate_branches raises on a duplicate branchId, a line of length zero or
\* an unknown branchType
validate_branches_raises(branches) ==
  \/ \E i, j \in 1..Len(branches) : i # j /\ branches[i].branchId = branches[j].branchId
  \/ \E i \in 1..Len(branches) : branches[i].length <= 0
  \/ \E i \in 1..Len(branches) : branches[i].branchType \notin BranchTypes

\* invert_levels_from_dem(gdf, dem, depth): both invert levels become the
\* terrain elevation at the pipe end minus depth minus the pipe's diameter
invert_levels_from_dem(rows, dem, depth) ==
  [i \in 1..Len(rows) |->
     [rows[i] EXCEPT !.invlev_up = dem.up - depth - rows[i].diameter,
                     !.invlev_dn = dem.dn - depth - rows[i].diameter]]


(* ----------------------- dhydamo/geometry/mesh.py ---------------------- *)
\* largest number of cells along one side of a generated rectilinear mesh
MaxCells == 2
\* largest number of mesh2d_add_rectilinear calls in one behaviour
MaxMeshes == 2
\* largest number of link-generation calls in one behaviour
MaxLinkCalls == 2

\* np.inf, the default max_length
inf == 30000

Max(S) == CHOOSE x \in S : \A y \in S : y <= x

Mesh2dVariables == {"node_x", "node_y", "edge_nodes", "face_nodes", "nodes_per_face",
                    "edge_x", "edge_y", "face_x", "face_y"}

EmptyMesh2d == [v \in Mesh2dVariables |-> <<>>]

\* the mesh that mesh2d_create_rectilinear_within_extent and mesh2d_clip leave
\* in the network: nx by ny cells of width dx from (ox, oy), the nodes numbered
\* from 0 row by row, edge_nodes and face_nodes flat arrays of node indices
Rectilinear(nx, ny, ox, oy, dx) ==
  LET w == nx + 1
      node(i, j) == j * w + i
      nh == nx * (ny + 1)
      nv == w * ny
      hedge(e) == <<node(e % nx, e \div nx), node((e % nx) + 1, e \div nx)>>
      vedge(e) == <<node(e % w, e \div w), node(e % w, (e \div w) + 1)>>
      face(f) == <<node(f % nx, f \div nx), node((f % nx) + 1, f \div nx),
                   node((f % nx) + 1, (f \div nx) + 1), node(f % nx, (f \div nx) + 1)>>
  IN [node_x |-> [k \in 1..(w * (ny + 1)) |-> ox + dx * ((k - 1) % w)],
      node_y |-> [k \in 1..(w * (ny + 1)) |-> oy + dx * ((k - 1) \div w)],
      edge_nodes |-> [k \in 1..(2 * (nh + nv)) |->
                        IF (k - 1) \div 2 < nh
                          THEN hedge((k - 1) \div 2)[((k - 1) % 2) + 1]
                          ELSE vedge(((k - 1) \div 2) - nh)[((k - 1) % 2) + 1]],
      face_nodes |-> [k \in 1..(4 * nx * ny) |-> face((k - 1) \div 4)[((k - 1) % 4) + 1]],
      nodes_per_face |-> [f \in 1..(nx * ny) |-> 4],
      edge_x |-> [k \in 1..(nh + nv) |->
                    IF k - 1 < nh THEN ox + dx * ((k - 1) % nx) + (dx \div 2)
                    ELSE ox + dx * ((k - 1 - nh) % w)],
      edge_y |-> [k \in 1..(nh + nv) |->
                    IF k - 1 < nh THEN oy + dx * ((k - 1) \div nx)
                    ELSE oy + dx * ((k - 1 - nh) \div w) + (dx \div 2)],
      face_x |-> [f \in 1..(nx * ny) |-> ox + dx * ((f - 1) % nx) + (dx \div 2)],
      face_y |-> [f \in 1..(nx * ny) |-> oy + dx * ((f - 1) \div nx) + (dx \div 2)]]

\* the merge with the index arrays shifted by the largest existing index only
mesh2d_add_rectilinear_by_max(existing_mesh2d, generated) ==
  IF Len(existing_mesh2d.node_x) > 0
    THEN LET offset == Max(Range(existing_mesh2d.edge_nodes))
             new_mesh2d == [generated EXCEPT
                              !.edge_nodes = [k \in DOMAIN @ |-> @[k] + offset],
                              !.face_nodes = [k \in DOMAIN @ |-> @[k] + offset]]
         IN [var \in Mesh2dVariables |-> existing_mesh2d[var] \o new_mesh2d[var]]
    ELSE generated

\* mesh2d_add_rectilinear, the merge: the mesh just generated is the network's
\* mesh when there was none, else its index arrays are shifted and every
\* variable is appended to the existing one
mesh2d_add_rectilinear(existing_mesh2d, generated) ==
  IF Len(existing_mesh2d.node_x) > 0
    THEN LET offset == Max(Range(existing_mesh2d.edge_nodes)) + 1
             new_mesh2d == [generated EXCEPT
                              !.edge_nodes = [k \in DOMAIN @ |-> @[k] + offset],
                              !.face_nodes = [k \in DOMAIN @ |-> @[k] + offset]]
         IN [var \in Mesh2dVariables |-> existing_mesh2d[var] \o new_mesh2d[var]]
    ELSE generated

EmptyLink1d2d == [link1d2d |-> <<>>, link1d2d_contact_type |-> <<>>,
                  link1d2d_id |-> <<>>, link1d2d_long_name |-> <<>>]

\* Mesh1d.get_node_mask: the nodes of the given branches, all when branchids is
\* None (the empty tuple here)
get_node_mask(mesh1d, branchids) ==
  [k \in 1..Len(mesh1d.node_x) |-> branchids = <<>> \/ mesh1d.branch[k] \in Range(branchids)]

\* a 1D node at the end of its branch
boundary_node(mesh1d, k) ==
  \/ ~\E j \in 1..(k - 1) : mesh1d.branch[j] = mesh1d.branch[k]
  \/ ~\E j \in (k + 1)..Len(mesh1d.node_x) : mesh1d.branch[j] = mesh1d.branch[k]

\* the faces (positions in the face arrays) that hold the point (x, y) inside
faces_around(mesh2d, x, y) ==
  {f \in 1..Len(mesh2d.nodes_per_face) :
     LET ns == {mesh2d.face_nodes[4 * (f - 1) + c] + 1 : c \in 1..4}
     IN /\ \E n \in ns : mesh2d.node_x[n] < x
        /\ \E n \in ns : mesh2d.node_x[n] > x
        /\ \E n \in ns : mesh2d.node_y[n] < y
        /\ \E n \in ns : mesh2d.node_y[n] > y}

\* Link1d2d._link_from_1d_to_2d: one link per masked 1D node that is not a
\* boundary node and lies inside a 2D face, appended to the four arrays
_link_from_1d_to_2d(link, mesh1d, mesh2d, node_mask) ==
  LET linked == SelectSeq([k \in 1..Len(mesh1d.node_x) |-> k],
                  LAMBDA k : /\ node_mask[k]
                             /\ ~boundary_node(mesh1d, k)
                             /\ faces_around(mesh2d, mesh1d.node_x[k], mesh1d.node_y[k]) # {})
      face(k) == CHOOSE f \in faces_around(mesh2d, mesh1d.node_x[k], mesh1d.node_y[k]) :
                   \A g \in faces_around(mesh2d, mesh1d.node_x[k], mesh1d.node_y[k]) : f <= g
      name(k) == ToString(k - 1) \o "_" \o ToString(face(k) - 1)
  IN [link1d2d |-> link.link1d2d \o [i \in 1..Len(linked) |-> <<linked[i] - 1, face(linked[i]) - 1>>],
      link1d2d_contact_type |-> link.link1d2d_contact_type \o [i \in 1..Len(linked) |-> 3],
      link1d2d_id |-> link.link1d2d_id \o [i \in 1..Len(linked) |-> name(linked[i])],
      link1d2d_long_name |-> link.link1d2d_long_name
                               \o [i \in 1..Len(linked) |-> "link_" \o name(linked[i])]]

\* the filter applied to the array of links only
_filter_links_on_idx_link1d2d(link, keep) ==
  [link EXCEPT !.link1d2d = [i \in 1..Len(keep) |-> link.link1d2d[keep[i] + 1]]]

\* _filter_links_on_idx: the four arrays, each indexed by keep (positions from 0)
_filter_links_on_idx(link, keep) ==
  [f \in DOMAIN link |-> [i \in 1..Len(keep) |-> link[f][keep[i] + 1]]]

\* a length test that also keeps the links exactly max_length long
hypot_at_most(dx, dy, max_length) == dx * dx + dy * dy <= max_length * max_length

\* np.hypot(dx, dy) < max_length, compared through the squares
hypot_below(dx, dy, max_length) == dx * dx + dy * dy < max_length * max_length

links1d2d_add_links_1d_to_2d(link, mesh1d, mesh2d, branchids, max_length) ==
  LET node_mask == get_node_mask(mesh1d, branchids)
      npresent == Len(link.link1d2d)
      generated == _link_from_1d_to_2d(link, mesh1d, mesh2d, node_mask)
      nnew == Len(generated.link1d2d) - npresent
      id1d == [i \in 1..nnew |-> generated.link1d2d[npresent + i][1]]
      id2d == [i \in 1..nnew |-> generated.link1d2d[npresent + i][2]]
      below == SelectSeq([i \in 1..nnew |-> i - 1],
                 LAMBDA i : hypot_below(mesh1d.node_x[id1d[i + 1] + 1] - mesh2d.face_x[id2d[i + 1] + 1],
                                        mesh1d.node_y[id1d[i + 1] + 1] - mesh2d.face_y[id2d[i + 1] + 1],
                                        max_length))
      keep == [i \in 1..npresent |-> i - 1] \o [i \in 1..Len(below) |-> below[i] + npresent]
  IN _filter_links_on_idx(generated, keep)


(* ------------------ hydromt_delft3dfm/dflowfm.py: state ---------------- *)
VARIABLES
  _write,        \* the model is opened in a write mode (w, r+)
  staticgeoms,   \* layer name -> table; an absent layer is the empty table
  _branches,     \* the network-wide branches table
  network,       \* dfmmodel.geometry.netfile.network: names of the 1D branches
  _staticmaps,   \* TRUE when the staticmaps dataset holds a map
  dfmmodel,      \* the friction and cross-section files of the FMModel
  last,          \* the last call: its name, arguments, how it ended, what it wrote
  ncalls,        \* the number of calls made of the operations whose number is bounded
  _mesh1d,       \* network._mesh1d: the 1D nodes and the branch each lies on
  _mesh2d,       \* network._mesh2d: the arrays of the 2D mesh
  _link1d2d      \* network._link1d2d: the four parallel arrays of the 1D-2D links

plugin_vars == <<_write, staticgeoms, _branches, network, _staticmaps, dfmmodel>>

mesh_vars == <<_mesh1d, _mesh2d, _link1d2d>>

(* ------------------- contrib scripts: state ---------------------------- *)
VARIABLES
  frictfile,     \* fm.geometry.frictfile: the friction files of the model read
  output_path,   \* the roughness-<frictionid>.ini files written, by frictionid
  df,            \* read_1dboundary: the boundaries of the quantity and their forcing file
  da_out,        \* read_1dboundary: the array returned
  ds,            \* HisResults: the time variable and the stations of the his file
  timeframe,     \* HisResults.timeframe: the time index, in seconds of the epoch
  input_path,    \* statistics_dhydro: the map file read (variables, series, layer)
  gdf,           \* statistics_dhydro: the table returned
  returned,      \* the value returned by the workflow function called last
  given          \* the arguments that the workflow function is called with

friction_vars == <<frictfile, output_path>>

boundary_vars == <<df, da_out>>

his_vars == <<ds, timeframe>>

statistics_vars == <<input_path, gdf>>

workflow_vars == <<returned, given>>

script_vars == <<friction_vars, boundary_vars, his_vars, statistics_vars, workflow_vars>>

\* no array (yet): the value of da_out before the call and after a raise
NoArray ==
  [function |-> "", dims |-> <<>>, index |-> <<>>, time |-> <<>>, data |-> <<>>,
   factor |-> NoData, offset |-> NoData]

\* no contributor script has been given a model
NothingReturned ==
  /\ frictfile = <<>>
  /\ output_path = <<>>
  /\ df = <<>>
  /\ da_out = NoArray
  /\ ds = <<>>
  /\ timeframe = <<>>
  /\ input_path = <<>>
  /\ gdf = <<>>
  /\ returned = <<>>

ScriptsIdle == NothingReturned /\ given = <<>>

Layers == {"region", "channels", "channel_nodes", "rivers", "rivers_nodes",
           "pipes", "pipe_nodes", "branches", "crosssections"}

\* the part of the model object the setup methods change
Self == [staticgeoms |-> staticgeoms, _branches |-> _branches, network |-> network,
         status |-> "ok"]

Raise(self, error) == [self EXCEPT !.status = error]

set_staticgeoms(self, geom, name) == [self EXCEPT !.staticgeoms[name] = geom]

\* set_branches_component: publishes the branches of one type, if there are any
set_branches_component(self, name) ==
  LET gdf_comp == SelectSeq(self._branches, LAMBDA b : b.branchType = name)
  IN IF Len(gdf_comp) > 0 THEN set_staticgeoms(self, gdf_comp, name \o "s") ELSE self

set_branches(self, branches) ==
  LET s0 == [self EXCEPT !._branches = branches]
      s1 == set_branches_component(s0, "river")
      s2 == set_branches_component(s1, "channel")
      s3 == set_branches_component(s2, "pipe")
  IN set_staticgeoms(s3, branches, "branches")

\* mesh.mesh1d_add_branch: one network branch per line, named by branch_names,
\* added one by one; int(branch_order) raises ValueError on a null order and
\* the lines before it stay in the network
mesh1d_add_branch(net, branch_names, branch_orders) ==
  LET n == Len(branch_names)
      bad == {k \in 1..n : branch_orders[k] = NoData}
      done == IF bad = {} THEN n ELSE (CHOOSE k \in bad : \A j \in bad : k <= j) - 1
  IN [network |-> net \o SubSeq(branch_names, 1, done),
      status |-> IF bad = {} THEN "ok" ELSE "ValueError"]

\* add_branches without the validation of the combined table
add_branches_unvalidated(self, new_branches, branchtype) ==
  LET new == [i \in 1..Len(new_branches) |->
                IF new_branches[i].branchType = ""
                  THEN [new_branches[i] EXCEPT !.branchType = branchtype]
                  ELSE new_branches[i]]
      added == mesh1d_add_branch(self.network,
                                 [i \in 1..Len(new) |-> new[i].branchId],
                                 [i \in 1..Len(new) |-> new[i].branchOrder])
  IN IF added.status # "ok"
       THEN Raise([self EXCEPT !.network = added.network], added.status)
     ELSE set_branches([self EXCEPT !.network = added.network], self._branches \o new)

add_branches(self, new_branches, branchtype) ==
  LET new == [i \in 1..Len(new_branches) |->
                IF new_branches[i].branchType = ""
                  THEN [new_branches[i] EXCEPT !.branchType = branchtype]
                  ELSE new_branches[i]]
      branches == self._branches \o new
      added == mesh1d_add_branch(self.network,
                                 [i \in 1..Len(new) |-> new[i].branchId],
                                 [i \in 1..Len(new) |-> new[i].branchOrder])
  IN IF validate_branches_raises(branches) THEN Raise(self, "InvalidInput")
     ELSE IF added.status # "ok"
       THEN Raise([self EXCEPT !.network = added.network], added.status)
     ELSE set_branches([self EXCEPT !.network = added.network], branches)

set_crosssections(self, crosssections) ==
  LET cur == self.staticgeoms["crosssections"]
  IN set_staticgeoms(self, IF Len(cur) > 0 THEN cur \o crosssections
                           ELSE crosssections, "crosssections")

\* _setup_crosssections: only the branch-derived cross-sections are reachable
\* without a crosssections_fn; every other type ends in NotImplementedError
_setup_crosssections(self, branches, crosssections_type, midpoint) ==
  IF crosssections_type = "branch"
    THEN IF set_branch_crosssections_raises(branches, midpoint)
           THEN Raise(self, "KeyError")
           ELSE set_crosssections(self, set_branch_crosssections(branches, midpoint))
    ELSE Raise(self, "NotImplementedError")

\* gdf[allowed_columns]: the columns that are not allowed are dropped
keep_columns(rows, kept) ==
  [i \in 1..Len(rows) |->
     [f \in DOMAIN rows[i] |->
        IF f \in kept \/ f = "length" THEN rows[i][f] ELSE NullRow[f]]]

\* the filter on branchType, and the branchType and branchId made on the fly
read_features(fn, filter, typ) ==
  LET sel == IF filter # "" /\ "branchType" \in fn.cols
               THEN SelectSeq(fn.rows, LAMBDA r : r.branchType = filter)
               ELSE fn.rows
  IN [i \in 1..Len(sel) |->
        [sel[i] EXCEPT
           !.branchType = IF "branchType" \in fn.cols THEN @ ELSE typ,
           !.branchId = IF "branchId" \in fn.cols THEN @
                        ELSE typ \o "_" \o ToString(i)]]

\* _setup_branches: defaults, processing and validation of the new branches
_setup_branches_raises(gdf_br, defaults, br_type) ==
  validate_branches_raises(
    process_branches(update_data_columns_attributes(gdf_br, defaults, br_type)).branches)

_setup_branches(gdf_br, defaults, br_type) ==
  process_branches(update_data_columns_attributes(gdf_br, defaults, br_type))

add_frictionId(rows) ==
  [i \in 1..Len(rows) |->
     [rows[i] EXCEPT !.frictionId = rows[i].frictionType \o "_" \o rows[i].frictionValue]]


(* ------------------------------ setup_* -------------------------------- *)
setup_channels(self, a) ==
  LET gdf_ch == a.fn.rows
      br == _setup_branches(gdf_ch, channels_defaults, "channel")
      s1 == set_staticgeoms(set_staticgeoms(self, br.branches, "channels"),
                            br.branches_nodes, "channel_nodes")
  IN IF "branchId" \notin a.fn.cols THEN Raise(self, "KeyError")
     ELSE IF Len(gdf_ch) = 0 THEN Raise(self, "warning_nofeatures")
     ELSE IF _setup_branches_raises(gdf_ch, channels_defaults, "channel")
       THEN Raise(self, "InvalidInput")
     ELSE add_branches(s1, br.branches, "channel")

rivers_allowed_columns ==
  {"geometry", "branchId", "branchType", "branchOrder", "material", "shape",
   "diameter", "width", "t_width", "height", "bedlev", "closed",
   "friction_type", "friction_value"}

setup_rivers(self, a) ==
  LET gdf_riv == keep_columns(read_features(a.fn, a.river_filter, "river"),
                              rivers_allowed_columns)
      defaults == [frictionType |-> a.friction_type,
                   frictionValue |-> a.friction_value] @@ rivers_defaults
      br == _setup_branches(gdf_riv, defaults, "river")
      rivers == add_frictionId(br.branches)
      crosssections_type == IF a.crosssections_type = "" THEN "branch"
                            ELSE a.crosssections_type
      s1 == _setup_crosssections(self, rivers, crosssections_type, TRUE)
      s2 == set_staticgeoms(set_staticgeoms(s1, rivers, "rivers"),
                            br.branches_nodes, "rivers_nodes")
  IN IF Len(gdf_riv) = 0 THEN Raise(self, "warning_nofeatures")
     ELSE IF _setup_branches_raises(gdf_riv, defaults, "river")
       THEN Raise(self, "InvalidInput")
     ELSE IF crosssections_type \notin {"xyzpoints", "branch"}
       THEN Raise(self, "AssertionError")
     ELSE IF s1.status # "ok" THEN s1
     ELSE add_branches(s2, rivers, "river")

\* the allowed columns of setup_pipes, as the source spells them
pipes_allowed_columns ==
  {"geometry", "branchId", "branchType", "branchOrder", "material", "spacing",
   "shape", "diameter", "width", "height", "invlev_up", "inlev_dn"}

\* the defaults of the cross-section shape, or the reason to skip setup_pipes
\* a shape check that takes any single number for the diameter of a circle
shape_mismatch_any_number(crosssections_shape, crosssections_value) ==
  IF crosssections_shape = "circle"
    THEN crosssections_value.kind \notin {"float", "int"}
  ELSE IF crosssections_shape = "rectangle"
    THEN ~(crosssections_value.kind = "list" /\ Len(crosssections_value.v) = 2)
  ELSE TRUE

shape_mismatch(crosssections_shape, crosssections_value) ==
  IF crosssections_shape = "circle" THEN crosssections_value.kind # "float"
  ELSE IF crosssections_shape = "rectangle"
    THEN ~(crosssections_value.kind = "list" /\ Len(crosssections_value.v) = 2)
  ELSE TRUE

shape_defaults(crosssections_shape, crosssections_value) ==
  IF crosssections_shape = "circle"
    THEN [shape |-> crosssections_shape, diameter |-> crosssections_value.v[1]]
    ELSE [shape |-> crosssections_shape, width |-> crosssections_value.v[1],
          height |-> crosssections_value.v[2]]

\* the invert levels of setup_pipes: kept when complete, else from the DEM,
\* else the constant pipes_invlev
setup_invert_levels(pipes, columns, a) ==
  LET nodata == \E i \in 1..Len(pipes) :
                   pipes[i].invlev_up = NoData \/ pipes[i].invlev_dn = NoData
      fill_invlev == IF "invlev_dn" \in columns THEN nodata ELSE TRUE
  IN IF fill_invlev /\ a.dem_fn # <<>>
       THEN invert_levels_from_dem(pipes, a.dem_fn[1], a.pipes_depth)
       ELSE update_data_columns_attributes(
              pipes, [invlev_up |-> a.pipes_invlev, invlev_dn |-> a.pipes_invlev],
              "pipe")

setup_pipes(self, a) ==
  LET gdf_pipe == keep_columns(read_features(a.fn, a.pipe_filter, "pipe"),
                               pipes_allowed_columns)
      defaults == [spacing |-> a.spacing, frictionType |-> a.friction_type,
                   frictionValue |-> a.friction_value]
                  @@ shape_defaults(a.crosssections_shape, a.crosssections_value)
                  @@ pipes_defaults
      br == _setup_branches(gdf_pipe, defaults, "pipe")
      columns == (a.fn.cols \cap pipes_allowed_columns)
                   \cup {"branchId", "branchType"} \cup DOMAIN defaults
      pipes == setup_invert_levels(add_frictionId(br.branches), columns, a)
      s1 == _setup_crosssections(self, pipes, "branch", FALSE)
      s2 == set_staticgeoms(set_staticgeoms(s1, pipes, "pipes"),
                            br.branches_nodes, "pipe_nodes")
  IN IF Len(gdf_pipe) = 0 THEN Raise(self, "warning_nofeatures")
     ELSE IF shape_mismatch(a.crosssections_shape, a.crosssections_value)
       THEN Raise(self, "warning_shape")
     ELSE IF _setup_branches_raises(gdf_pipe, defaults, "pipe")
       THEN Raise(self, "InvalidInput")
     ELSE IF s1.status # "ok" THEN s1
     ELSE add_branches(s2, pipes, "pipe")


\* setup_basemaps without the check of the CRS of the region geometry
setup_basemaps_unchecked(self, a) ==
  LET geom_crs == IF a.kind = "bbox" THEN 4326 ELSE a.geom_crs
  IN IF a.kind \notin {"bbox", "grid", "geom"} THEN Raise(self, "ValueError")
     ELSE IF a.crs # 0
       THEN IF geom_crs = 0 THEN Raise(self, "ValueError")
            ELSE set_staticgeoms(self, <<a.crs>>, "region")
     ELSE set_staticgeoms(self, <<geom_crs>>, "region")

\* setup_basemaps: the region geometry and its CRS (0 stands for no CRS)
setup_basemaps(self, a) ==
  LET geom_crs == IF a.kind = "bbox" THEN 4326 ELSE a.geom_crs
  IN IF a.kind \notin {"bbox", "grid", "geom"} THEN Raise(self, "ValueError")
     ELSE IF a.crs # 0
       THEN IF geom_crs = 0 THEN Raise(self, "ValueError")
            ELSE set_staticgeoms(self, <<a.crs>>, "region")
     ELSE IF geom_crs = 0 THEN Raise(self, "AttributeError")
     ELSE set_staticgeoms(self, <<geom_crs>>, "region")

(* ------------------------------- write --------------------------------- *)
\* the part of the model object the write methods change
Out == [dfmmodel |-> dfmmodel, written |-> {}, status |-> "ok"]

\* _write_friction: one FrictionModel per distinct frictionId of the branches
\* table, in a file named after the row label
_write_friction_raises(geoms) ==
  \/ geoms["branches"] = <<>>
  \/ \A i \in 1..Len(geoms["branches"]) : geoms["branches"][i].frictionId = ""

_write_friction(geoms) ==
  LET branches == geoms["branches"]
      first == {i \in 1..Len(branches) :
                  \A j \in 1..(i - 1) : branches[j].frictionId # branches[i].frictionId}
      rows == SelectSeq([i \in 1..Len(branches) |-> i], LAMBDA i : i \in first)
  IN [k \in 1..Len(rows) |->
        [global_ |-> [frictionId |-> branches[rows[k]].frictionId,
                      frictionValue |-> branches[rows[k]].frictionValue,
                      frictionType |-> branches[rows[k]].frictionType],
         filepath |-> "roughness_" \o ToString(rows[k] - 1) \o ".ini"]]

\* _write_crosssections: the crsdef_* and the crsloc_* columns of every row of
\* the crosssections table, the prefix stripped
crsdef_records(gpd_crs) ==
  [i \in 1..Len(gpd_crs) |->
     LET c == gpd_crs[i]
     IN [id |-> c.crsdef_id, type |-> c.crsdef_type, branchId |-> c.crsdef_branchId,
         height |-> c.crsdef_height, width |-> c.crsdef_width,
         diameter |-> c.crsdef_diameter, closed |-> c.crsdef_closed,
         frictionId |-> c.crsdef_frictionId, numlevels |-> c.crsdef_numlevels,
         levels |-> c.crsdef_levels, flowwidths |-> c.crsdef_flowwidths,
         totalwidths |-> c.crsdef_totalwidths, thalweg |-> c.crsdef_thalweg]]

crsloc_records(gpd_crs) ==
  [i \in 1..Len(gpd_crs) |->
     LET c == gpd_crs[i]
     IN [id |-> c.crsloc_id, branchId |-> c.crsloc_branchId,
         chainage |-> c.crsloc_chainage, shift |-> c.crsloc_shift,
         definitionId |-> c.crsloc_definitionId]]

_write_crosssections_raises(geoms) == geoms["crosssections"] = <<>>

\* write_dfmmodel without the check of the mode
write_dfmmodel_any_mode(out, writable, geoms) ==
  IF _write_friction_raises(geoms)
    THEN [out EXCEPT !.status = "KeyError"]
  ELSE IF _write_crosssections_raises(geoms)
    THEN [out EXCEPT !.status = "KeyError",
                     !.dfmmodel.frictfile = _write_friction(geoms)]
  ELSE [out EXCEPT !.dfmmodel = [frictfile |-> _write_friction(geoms),
                                 crossdeffile |-> crsdef_records(geoms["crosssections"]),
                                 crosslocfile |-> crsloc_records(geoms["crosssections"])],
                   !.written = @ \cup {"dfmmodel"}]

write_dfmmodel(out, writable, geoms) ==
  IF ~writable THEN [out EXCEPT !.status = "IOError"]
  ELSE IF _write_friction_raises(geoms)
    THEN [out EXCEPT !.status = "KeyError"]
  ELSE IF _write_crosssections_raises(geoms)
    THEN [out EXCEPT !.status = "KeyError",
                     !.dfmmodel.frictfile = _write_friction(geoms)]
  ELSE [out EXCEPT !.dfmmodel = [frictfile |-> _write_friction(geoms),
                                 crossdeffile |-> crsdef_records(geoms["crosssections"]),
                                 crosslocfile |-> crsloc_records(geoms["crosssections"])],
                   !.written = @ \cup {"dfmmodel"}]

write_staticmaps(out, writable) ==
  IF ~writable THEN [out EXCEPT !.status = "IOError"]
  ELSE [out EXCEPT !.written = @ \cup {"staticmaps"}]

write_staticgeoms(out, writable) ==
  IF ~writable THEN [out EXCEPT !.status = "IOError"]
  ELSE [out EXCEPT !.written = @ \cup {"staticgeoms"}]

\* write: the config (never empty: a default is read), then each sub-resource
\* that is not empty; self.dfmmodel is an FMModel object and so always true;
\* nothing fills _forcing
write(out, writable, maps, geoms) ==
  LET o1 == [out EXCEPT !.written = @ \cup {"config"}]
      o2 == IF maps THEN write_staticmaps(o1, writable) ELSE o1
      o3 == IF \E l \in Layers : geoms[l] # <<>>
              THEN write_staticgeoms(o2, writable) ELSE o2
  IN IF ~writable THEN [out EXCEPT !.status = "warning_readonly"]
     ELSE write_dfmmodel(o3, writable, geoms)

(* ------------------------------ actions -------------------------------- *)
\* the arguments of the calls made
DefaultRivers(fn) ==
  [fn |-> fn, river_filter |-> "", friction_type |-> "Manning",
   friction_value |-> "0.023", crosssections_type |-> ""]

RiversCalls ==
  {DefaultRivers(fn) : fn \in IdSources("", FALSE)
                              \cup {TypedSource, ZeroLengthSource, UnknownTypeSource}}
  \cup {[DefaultRivers(TypedSource) EXCEPT !.river_filter = "river"],
        [DefaultRivers(TypedSource) EXCEPT !.crosssections_type = "xyzpoints"]}

ChannelsCalls ==
  {[fn |-> fn] : fn \in IdSources("channel", FALSE)}

Dem == [up |-> 100, dn |-> 50]

DefaultPipes(fn) ==
  [fn |-> fn, pipe_filter |-> "", spacing |-> 5000, friction_type |-> "WhiteColebrook",
   friction_value |-> "0.003", crosssections_shape |-> "circle",
   crosssections_value |-> [kind |-> "float", v |-> <<50>>],
   dem_fn |-> <<>>, pipes_depth |-> -200, pipes_invlev |-> -250]

OnePipe(withInv) == NamedSource(<<"a">>, "", withInv)

PipesCalls ==
  {DefaultPipes(fn) : fn \in IdSources("", TRUE) \cup {TypedSource, PartialInvSource}}
  \cup {[DefaultPipes(fn) EXCEPT !.dem_fn = <<Dem>>] :
          fn \in {OnePipe(TRUE), OnePipe(FALSE), PartialInvSource}}
  \cup {DefaultPipes(OnePipe(FALSE)),
        [DefaultPipes(TypedSource) EXCEPT !.pipe_filter = "pipe"]}
  \cup {[DefaultPipes(OnePipe(TRUE)) EXCEPT !.crosssections_shape = sh,
                                            !.crosssections_value = val] :
          sh \in {"circle", "rectangle", "egg"},
          val \in {[kind |-> "float", v |-> <<50>>], [kind |-> "int", v |-> <<1>>],
                   [kind |-> "list", v |-> <<100, 100>>],
                   [kind |-> "list", v |-> <<100>>]}}

\* a pipe of a source that has the cross-section columns: a circle carries a
\* diameter, a rectangle a width and a height, and a null shape nothing
PipeFeature(id, shape) ==
  [Feature(id, "", IF id = "a" THEN 10000 ELSE 20000, -200, -230) EXCEPT
     !.shape = shape,
     !.diameter = IF shape = "circle" THEN 40 ELSE NoData,
     !.width = IF shape = "rectangle" THEN 100 ELSE NoData,
     !.height = IF shape = "rectangle" THEN 100 ELSE NoData]

PipeShapes == {"", "circle", "rectangle"}

\* the pipes sources with a shape column
ShapedSources ==
  { Source({"geometry", "branchId", "invlev_up", "invlev_dn", "shape", "diameter",
            "width", "height"}, rows) :
      rows \in SeqsOf({PipeFeature(id, sh) : id \in BranchIds, sh \in PipeShapes},
                      1, MaxFeatures) }

ShapedPipesCalls == {DefaultPipes(fn) : fn \in ShapedSources}

BasemapsCalls ==
  [kind : {"bbox", "grid", "geom", "other"}, crs : {0, 28992}, geom_crs : {0, 28992}]

\* the calls that give the region of a model built from a bounding box
RegionCalls == [kind : {"bbox", "geom", "other"}, crs : {0}, geom_crs : {0}]

\* one source per branch family: a channel, two rivers of one shape, a pipe
IOChannelsCalls == {[fn |-> NamedSource(<<"c">>, "channel", FALSE)]}

IORiversCalls == {DefaultRivers(NamedSource(<<"a", "b">>, "", FALSE))}

IOPipesCalls == {DefaultPipes(NamedSource(<<"p">>, "", TRUE))}

Done(op, self, a) ==
  /\ staticgeoms' = self.staticgeoms
  /\ _branches' = self._branches
  /\ network' = self.network
  /\ last' = [op |-> op, status |-> self.status, written |-> {}, args |-> a]
  /\ UNCHANGED <<_write, _staticmaps, dfmmodel, mesh_vars, script_vars>>

Wrote(op, out) ==
  /\ dfmmodel' = out.dfmmodel
  /\ last' = [op |-> op, status |-> out.status, written |-> out.written, args |-> <<>>]
  /\ UNCHANGED <<_write, staticgeoms, _branches, network, _staticmaps, ncalls, mesh_vars,
               script_vars>>

HasRegion == staticgeoms["region"] # <<>>

SetupBasemaps(calls) ==
  \E a \in calls :
    /\ Done("setup_basemaps", setup_basemaps(Self, a), a)
    /\ UNCHANGED ncalls

SetupChannels(calls) ==
  \E a \in calls :
    /\ HasRegion /\ ncalls < MaxCalls
    /\ Done("setup_channels", setup_channels(Self, a), a)
    /\ ncalls' = ncalls + 1

SetupRivers(calls) ==
  \E a \in calls :
    /\ HasRegion /\ ncalls < MaxCalls
    /\ Done("setup_rivers", setup_rivers(Self, a), a)
    /\ ncalls' = ncalls + 1

SetupPipes(calls) ==
  \E a \in calls :
    /\ HasRegion /\ ncalls < MaxCalls
    /\ Done("setup_pipes", setup_pipes(Self, a), a)
    /\ ncalls' = ncalls + 1

ReadStaticmapsCall ==
  [op |-> "read_staticmaps", status |-> "ok", written |-> {}, args |-> <<>>]

\* read_staticmaps: starts fresh in read-only mode, then adds the maps found
ReadStaticmaps ==
  \E found \in BOOLEAN :
    /\ _staticmaps' = ((_write /\ _staticmaps) \/ found)
    /\ last' = ReadStaticmapsCall
    /\ UNCHANGED <<_write, staticgeoms, _branches, network, dfmmodel, ncalls, mesh_vars,
                   script_vars>>

Write == Wrote("write", write(Out, _write, _staticmaps, staticgeoms))

WriteStaticmaps == Wrote("write_staticmaps", write_staticmaps(Out, _write))

WriteStaticgeoms == Wrote("write_staticgeoms", write_staticgeoms(Out, _write))

WriteDfmmodel == Wrote("write_dfmmodel", write_dfmmodel(Out, _write, staticgeoms))

(* --------------------------- mesh.py: actions -------------------------- *)
MeshInit ==
  /\ _mesh1d = [node_x |-> <<>>, node_y |-> <<>>, branch |-> <<>>]
  /\ _mesh2d = EmptyMesh2d
  /\ _link1d2d = EmptyLink1d2d

Called(op, a) ==
  /\ last' = [op |-> op, status |-> "ok", written |-> {}, args |-> a]
  /\ ncalls' = ncalls + 1
  /\ UNCHANGED <<plugin_vars, script_vars>>

\* where the generated meshes start, and the max_length values passed
MeshOrigins == {0, 4, 12}

MaxLengths == {0, 1, 2, inf}

BranchidsArgs == {<<>>, <<"a">>, <<"b">>}

Mesh2dAddRectilinear ==
  \E nx, ny \in 1..MaxCells, ox \in MeshOrigins :
    /\ ncalls < MaxMeshes
    /\ _mesh2d' = mesh2d_add_rectilinear(_mesh2d, Rectilinear(nx, ny, ox, 0, 4))
    /\ Called("mesh2d_add_rectilinear", [nx |-> nx, ny |-> ny, ox |-> ox, oy |-> 0, dx |-> 4])
    /\ UNCHANGED <<_mesh1d, _link1d2d>>

Links1d2dAddLinks1dTo2d ==
  \E branchids \in BranchidsArgs, max_length \in MaxLengths :
    /\ ncalls < MaxLinkCalls
    /\ _link1d2d' = links1d2d_add_links_1d_to_2d(_link1d2d, _mesh1d, _mesh2d,
                                                 branchids, max_length)
    /\ Called("links1d2d_add_links_1d_to_2d",
              [branchids |-> branchids, max_length |-> max_length])
    /\ UNCHANGED <<_mesh1d, _mesh2d>>

\* two branches of 1D nodes along the line at height y
Mesh1dLine(y) ==
  [node_x |-> <<0, 1, 2, 3, 4, 4, 5, 6, 9>>,
   node_y |-> [k \in 1..9 |-> y],
   branch |-> <<"a", "a", "a", "a", "a", "b", "b", "b", "b">>]

\* the model object after construction
PluginInit(modes) ==
  /\ _write \in modes
  /\ staticgeoms = [l \in Layers |-> <<>>]
  /\ _branches = <<>>
  /\ network = <<>>
  /\ _staticmaps = FALSE
  /\ dfmmodel = [frictfile |-> <<>>, crossdeffile |-> <<>>, crosslocfile |-> <<>>]
  /\ last = [op |-> "__init__", status |-> "ok", written |-> {}, args |-> <<>>]
  /\ ncalls = 0

vars == <<plugin_vars, last, ncalls, mesh_vars, script_vars>>

\* Spec: building a model opened in the default write mode
Init == PluginInit({TRUE}) /\ MeshInit /\ ScriptsIdle

Next ==
  \/ SetupBasemaps(RegionCalls)
  \/ SetupChannels(ChannelsCalls)
  \/ SetupRivers(RiversCalls)
  \/ SetupPipes(PipesCalls)

Spec == Init /\ [][Next]_vars

\* SpecIO: a model opened in either mode, set up from one source per branch
\* family, read and written
InitIO == PluginInit(BOOLEAN) /\ MeshInit /\ ScriptsIdle

NextIO ==
  \/ SetupBasemaps(BasemapsCalls)
  \/ SetupChannels(IOChannelsCalls)
  \/ SetupRivers(IORiversCalls)
  \/ SetupPipes(IOPipesCalls)
  \/ ReadStaticmaps
  \/ Write
  \/ WriteStaticmaps
  \/ WriteStaticgeoms
  \/ WriteDfmmodel

SpecIO == InitIO /\ [][NextIO]_vars

\* SpecMesh2d: rectilinear meshes added to the 2D mesh of a new network
InitMesh2d == PluginInit({TRUE}) /\ MeshInit /\ ScriptsIdle

NextMesh2d == Mesh2dAddRectilinear

SpecMesh2d == InitMesh2d /\ [][NextMesh2d]_vars

\* SpecLinks: 1D-2D links generated on a network with a 1D and a 2D mesh
InitLinks ==
  /\ PluginInit({TRUE})
  /\ _mesh1d \in {Mesh1dLine(y) : y \in {1, 2}}
  /\ _mesh2d \in {Rectilinear(nx, 1, 0, 0, 4) : nx \in 1..MaxCells}
  /\ _link1d2d = EmptyLink1d2d
  /\ ScriptsIdle

NextLinks == Links1d2dAddLinks1dTo2d

SpecLinks == InitLinks /\ [][NextLinks]_vars

\* SpecPipes: pipes set up from sources that give the cross-section shape of
\* each pipe
InitPipes == PluginInit({TRUE}) /\ MeshInit /\ ScriptsIdle

NextPipes ==
  \/ SetupBasemaps(RegionCalls)
  \/ SetupPipes(ShapedPipesCalls)

SpecPipes == InitPipes /\ [][NextPipes]_vars

(* --------- contrib/Arcadis/scripts/change_friction_channels.py --------- *)
\* largest number of features in the friction shapefile
MaxShapes == 2

\* the cells of a friction table: a Python list, a float, an int or None
PyList(v) == [kind |-> "list", v |-> v]

PyFloat(x) == [kind |-> "float", v |-> <<x>>]

PyInt(x) == [kind |-> "int", v |-> <<x>>]

None == [kind |-> "None", v |-> <<>>]

\* the search distance of the spatial join
buffer == 10

Abs(x) == IF x < 0 THEN -x ELSE x

Min(S) == CHOOSE x \in S : \A y \in S : x <= y

\* gpd.sjoin_nearest(branches, gdf_frict, max_distance): every branch joined
\* with each of its nearest features, if one lies within max_distance
sjoin_nearest(branches, gdf_frict, max_distance) ==
  Flatten([i \in 1..Len(branches) |->
    LET b == branches[i]
        near == {k \in 1..Len(gdf_frict) : Abs(b.x - gdf_frict[k].x) <= max_distance}
        hit == SelectSeq(gdf_frict, LAMBDA f :
                 /\ near # {}
                 /\ Abs(b.x - f.x) = Min({Abs(b.x - gdf_frict[k].x) : k \in near}))
    IN [j \in 1..Len(hit) |-> [id |-> b.id, fricval |-> hit[j].fricval]]])

\* friction2dict: the global and the branch records of each friction file, by
\* the frictionid of its first global record; a later file replaces an earlier
\* one of the same frictionid
friction2dict(fm) ==
  LET keys == {fm[i].global_[1].frictionid : i \in 1..Len(fm)}
      file(k) == fm[Max({i \in 1..Len(fm) : fm[i].global_[1].frictionid = k})]
  IN [dfsglob |-> [k \in keys |-> file(k).global_],
      dfschan |-> [k \in keys |-> file(k).branch]]

\* intersect.assign(result=intersect["id"].isin(frictions.branchid)), with id
\* renamed to branchid
in_model(intersect, frictions) ==
  [i \in 1..Len(intersect) |->
     [branchid |-> intersect[i].id, fricval |-> intersect[i].fricval,
      result |-> \E k \in 1..Len(frictions) : frictions[k].branchid = intersect[i].id]]

\* frictions.merge(in_model, how="left", on="branchid"): a record without a
\* row in in_model gets null (here FALSE, NoData) in the columns of in_model
left_merge(frictions, inmodel) ==
  Flatten([i \in 1..Len(frictions) |->
    LET m == SelectSeq(inmodel, LAMBDA r : r.branchid = frictions[i].branchid)
    IN IF m = <<>>
         THEN <<frictions[i] @@ [result |-> FALSE, fricval |-> NoData]>>
         ELSE [j \in 1..Len(m) |->
                 frictions[i] @@ [result |-> m[j].result, fricval |-> m[j].fricval]]])

\* the overlay that leaves numlocations at zero
overlay_record_no_locations(r) ==
  IF r.result
    THEN [r EXCEPT !.frictionvalues = PyFloat(r.fricval), !.numlocations = 0,
                   !.chainage = PyInt(0)]
    ELSE r

\* the three assignments on the rows with result == True
overlay_record(r) ==
  IF r.result
    THEN [r EXCEPT !.frictionvalues = PyFloat(r.fricval), !.numlocations = 1,
                   !.chainage = PyInt(0)]
    ELSE r

\* the two apply calls: a float friction value and an int chainage become lists
values_to_list(r) ==
  [r EXCEPT !.frictionvalues = IF @.kind = "float" THEN PyList(@.v) ELSE @,
            !.chainage = IF @.kind = "int" THEN PyList(@.v) ELSE @]

merge(frictions, intersect) ==
  LET joined == left_merge(frictions, in_model(intersect, frictions))
  IN [i \in 1..Len(joined) |-> values_to_list(overlay_record(joined[i]))]

\* the branch records written whatever wipe is
written_branches_ignoring_wipe(merged, wipe) ==
  [i \in 1..Len(merged) |->
     [f \in DOMAIN merged[i] \ {"result", "fricval"} |-> merged[i][f]]]

\* the branch records handed to FrictionModel: the rows of the overlay only
\* (wipe) or all rows, without the columns of in_model
written_branches(merged, wipe) ==
  LET rows == IF wipe THEN SelectSeq(merged, LAMBDA r : r.result) ELSE merged
  IN [i \in 1..Len(rows) |->
        [f \in DOMAIN rows[i] \ {"result", "fricval"} |-> rows[i][f]]]

\* change_friction_shape: the roughness files written, by frictionid
change_friction_shape(fm, branches, gdf_frict, wipe) ==
  LET d == friction2dict(fm)
      intersect == sjoin_nearest(branches, gdf_frict, buffer)
  IN [key \in DOMAIN d.dfschan |->
        IF d.dfschan[key] # <<>>
          THEN [global_ |-> d.dfsglob[key],
                branch |-> written_branches(merge(d.dfschan[key], intersect), wipe)]
          ELSE [global_ |-> d.dfsglob[key], branch |-> <<>>]]

\* the 1d_branches of the net file of the model: their ids and where they lie
Net1dBranches ==
  <<[id |-> "a", x |-> 0], [id |-> "b", x |-> 30], [id |-> "c", x |-> 100]>>

\* the features of the friction shapefile: two at the same distance of branch
\* a and one near branch b; no feature lies near branch c
FrictFeatures ==
  {[x |-> -5, fricval |-> 20], [x |-> 5, fricval |-> 45], [x |-> 25, fricval |-> 20]}

FrictShapes == SeqsOf(FrictFeatures, 0, MaxShapes)

\* a branch record of a friction file with n locations
FrictBranch(id, n) ==
  [branchid |-> id, frictiontype |-> "Manning", numlocations |-> n,
   chainage |-> IF n = 0 THEN None
                ELSE PyList([k \in 1..n |-> 50 * (k - 1)]),
   frictionvalues |-> IF n = 0 THEN None ELSE PyList([k \in 1..n |-> 29 + k])]

BranchRecordSets ==
  {<<>>, <<FrictBranch("a", 2), FrictBranch("b", 1)>>,
   <<FrictBranch("b", 2), FrictBranch("c", 1)>>,
   <<FrictBranch("c", 0), FrictBranch("b", 0), FrictBranch("a", 2)>>}

FrictFile(id, branch) ==
  [global_ |-> <<[frictionid |-> id, frictiontype |-> "Manning", frictionvalue |-> 23]>>,
   branch |-> branch]

\* the friction files of the model read: one file, or two of different ids
FrictFileLists ==
  {<<FrictFile("Channels", r)>> : r \in BranchRecordSets}
  \cup {<<FrictFile("Channels", r1), FrictFile("Main", r2)>> :
          r1 \in BranchRecordSets, r2 \in BranchRecordSets}

ChangeFrictionShape ==
  \E gdf_frict \in FrictShapes, wipe \in BOOLEAN :
    LET written == change_friction_shape(frictfile, Net1dBranches, gdf_frict, wipe)
    IN /\ output_path' = [k \in DOMAIN output_path \cup DOMAIN written |->
                            IF k \in DOMAIN written THEN written[k] ELSE output_path[k]]
       /\ last' = [op |-> "change_friction_shape", status |-> "ok",
                   written |-> DOMAIN written,
                   args |-> [gdf_frict |-> gdf_frict, wipe |-> wipe]]
       /\ UNCHANGED <<plugin_vars, ncalls, mesh_vars, frictfile, boundary_vars, his_vars,
                    statistics_vars, workflow_vars>>

\* SpecFriction: the friction overlay run on a model with friction files
InitFriction ==
  /\ PluginInit({TRUE}) /\ MeshInit
  /\ frictfile \in FrictFileLists
  /\ output_path = <<>>
  /\ df = <<>> /\ da_out = NoArray
  /\ ds = <<>> /\ timeframe = <<>>
  /\ input_path = <<>> /\ gdf = <<>>
  /\ returned = <<>>
  /\ given = <<>>

NextFriction == ChangeFrictionShape

SpecFriction == InitFriction /\ [][NextFriction]_vars

(* ------------- hydromt_delft3dfm/utils.py: read_1dboundary ------------- *)
\* largest number of forcing blocks in the forcing file
MaxBlocks == 2

\* the branch taken when one constant (one timeseries) block is enough
function_branch_any(df_forcing) ==
  IF \E i \in 1..Len(df_forcing) : df_forcing[i].function = "constant"
    THEN "constant"
  ELSE IF \E i \in 1..Len(df_forcing) : df_forcing[i].function = "timeseries"
    THEN "timeseries"
  ELSE "NotImplementedError"

\* the branch of read_1dboundary: np.all(function == "constant"), else
\* np.all(function == "timeseries"), else the raise
function_branch(df_forcing) ==
  IF \A i \in 1..Len(df_forcing) : df_forcing[i].function = "constant"
    THEN "constant"
  ELSE IF \A i \in 1..Len(df_forcing) : df_forcing[i].function = "timeseries"
    THEN "timeseries"
  ELSE "NotImplementedError"

\* read_1dboundary(df, quantity, nodes): how the call ends and the array it
\* returns; nodes holds every node of df
read_1dboundary(df_) ==
  LET nodeids == df_.nodeid
      forcing == df_.forcingfile
      df_forcing == SelectSeq(forcing, LAMBDA f : f.name \in Range(nodeids))
      branch == function_branch(df_forcing)
      \* data + offset * factor
      constant == [i \in 1..Len(df_forcing) |->
                     df_forcing[i].datablock[1][1]
                       + df_forcing[i].offset * df_forcing[i].factor]
      \* n[1] * factor + offset for every row of the datablock
      timeseries == [i \in 1..Len(df_forcing) |->
                       [k \in 1..Len(df_forcing[i].datablock) |->
                          df_forcing[i].datablock[k][2] * df_forcing[i].factor
                            + df_forcing[i].offset]]
      times == [k \in 1..Len(df_forcing[1].datablock) |-> df_forcing[1].datablock[k][1]]
      Failed(error) == [status |-> error, da_out |-> NoArray]
  IN IF forcing = <<>> THEN Failed("AttributeError")
     ELSE IF branch = "NotImplementedError" THEN Failed("NotImplementedError")
     ELSE IF df_forcing = <<>> THEN Failed("IndexError")
     \* xr.DataArray: the data must have one row per node of the index
     ELSE IF Len(df_forcing) # Len(nodeids) THEN Failed("ValueError")
     ELSE IF branch = "constant"
       THEN [status |-> "ok",
             da_out |-> [function |-> "constant", dims |-> <<"index">>,
                         index |-> nodeids, time |-> <<>>, data |-> constant,
                         factor |-> 1, offset |-> 0]]
     \* and one column per time of the first block
     ELSE IF \E i \in 1..Len(df_forcing) :
               Len(df_forcing[i].datablock) # Len(times)
       THEN Failed("ValueError")
     ELSE [status |-> "ok",
           da_out |-> [function |-> "timeseries", dims |-> <<"index", "time">>,
                       index |-> nodeids, time |-> times, data |-> timeseries,
                       factor |-> 1, offset |-> 0]]

\* the forcing blocks of a forcing file: the node, the function, the datablock
\* of that function, the offset and the factor
ForcingBlocks ==
  {[name |-> n, function |-> fn, offset |-> of[1], factor |-> of[2],
    datablock |-> IF fn = "constant" THEN <<<<5>>>>
                  ELSE <<<<0, 1>>, <<60, 2>>>>] :
     n \in {"n1", "n2"}, fn \in {"constant", "timeseries", "harmonic"},
     of \in {<<0, 1>>, <<1, 2>>}}

\* the boundary nodes of the quantity, in the order of the external forcings
NodeIds == {<<"n1">>, <<"n2">>, <<"n1", "n2">>, <<"n2", "n1">>}

ExtForcings ==
  [nodeid : NodeIds, forcingfile : SeqsOf(ForcingBlocks, 0, MaxBlocks)]

Read1dBoundary ==
  /\ last.op # "read_1dboundary"
  /\ da_out' = read_1dboundary(df).da_out
  /\ last' = [op |-> "read_1dboundary", status |-> read_1dboundary(df).status,
              written |-> {}, args |-> <<>>]
  /\ UNCHANGED <<plugin_vars, ncalls, mesh_vars, friction_vars, df, his_vars,
               statistics_vars, workflow_vars>>

\* SpecBoundary: read_1dboundary applied to the boundaries of one quantity
InitBoundary ==
  /\ PluginInit({TRUE}) /\ MeshInit
  /\ frictfile = <<>> /\ output_path = <<>>
  /\ df \in ExtForcings
  /\ da_out = NoArray
  /\ ds = <<>> /\ timeframe = <<>>
  /\ input_path = <<>> /\ gdf = <<>>
  /\ returned = <<>>
  /\ given = <<>>

NextBoundary == Read1dBoundary

SpecBoundary == InitBoundary /\ [][NextBoundary]_vars

(* ------------------- contrib/HydroLogic/hisreader.py ------------------- *)
\* largest number of samples of the time variable
MaxSamples == 3

\* datetime.fromisoformat, in seconds since 2020-01-01 00:00:00
fromisoformat(date_string) ==
  IF date_string = "2020-01-01 00:00:00" THEN 0
  ELSE IF date_string = "2020-01-02 00:00:00" THEN 86400
  ELSE NoData

\* units.split("since ")[1].replace("+00:00", "").strip(): of the pieces of
\* the units after "since ", the one that is not "+00:00"
t_start(units) ==
  LET since == CHOOSE i \in 1..Len(units) : units[i] = "since "
      rest == SubSeq(units, since + 1, Len(units))
  IN SelectSeq(rest, LAMBDA piece : piece # "+00:00")[1]

\* pd.date_range(start, end, freq): start, start + freq, ... up to end
date_range(start, end, freq) ==
  [k \in 1..((end - start) \div freq + 1) |-> start + (k - 1) * freq]

\* __make_timeframe: how it ends and the time index it sets
__make_timeframe(ds_) ==
  LET time == ds_.time
      start_datetime == fromisoformat(t_start(ds_.units))
      end_datetime == start_datetime + Max(Range(time))
      delta_time == time[2] - time[1]
  IN IF Len(time) < 2 THEN [status |-> "IndexError", timeframe |-> <<>>]
     ELSE [status |-> "ok",
           timeframe |-> date_range(start_datetime, end_datetime, delta_time)]

\* __parse_structures: a column of the his file is set on a copy of the
\* timeframe, which pandas refuses when the lengths differ
__parse_structures_raises(ds_, timeframe_) ==
  ds_.station_id # <<>> /\ Len(timeframe_) # Len(ds_.time)

\* HisResults.__init__
HisResults(ds_) ==
  LET made == __make_timeframe(ds_)
  IN IF made.status # "ok" THEN made
     ELSE IF __parse_structures_raises(ds_, made.timeframe)
       THEN [made EXCEPT !.status = "ValueError"]
     ELSE made

\* the his files read: the units of time in pieces ("seconds ", "since ", the
\* reference datetime, and the "+00:00" some files carry), and samples every `step` seconds from
\* the start time `first` of the output
HisFiles ==
  {[units |-> <<"seconds ", "since ", since>> \o utc,
    time |-> [k \in 1..n |-> first + (k - 1) * step],
    station_id |-> stations] :
     since \in {"2020-01-01 00:00:00", "2020-01-02 00:00:00"}, utc \in {<<>>, <<"+00:00">>}, n \in 1..MaxSamples,
     step \in {60, 3600}, first \in {0, 60, 7200},
     stations \in {<<>>, <<"obs1">>}}

ReadHisResults ==
  /\ last.op # "HisResults"
  /\ timeframe' = HisResults(ds).timeframe
  /\ last' = [op |-> "HisResults", status |-> HisResults(ds).status,
              written |-> {}, args |-> <<>>]
  /\ UNCHANGED <<plugin_vars, ncalls, mesh_vars, friction_vars, boundary_vars, ds,
               statistics_vars, workflow_vars>>

\* SpecHis: a HisResults object made of a his file
InitHis ==
  /\ PluginInit({TRUE}) /\ MeshInit
  /\ frictfile = <<>> /\ output_path = <<>>
  /\ df = <<>> /\ da_out = NoArray
  /\ ds \in HisFiles
  /\ timeframe = <<>>
  /\ input_path = <<>> /\ gdf = <<>>
  /\ returned = <<>>
  /\ given = <<>>

NextHis == ReadHisResults

SpecHis == InitHis /\ [][NextHis]_vars

(* -------------- contrib/Arcadis/scripts/export_statistics.py ----------- *)
\* largest number of time steps in the map file
MaxTimes == 3

\* datetime.strptime(date, "%Y/%m/%d"), in hours since 2020/01/01 00:00
strptime(date) ==
  IF date = "2020/01/01" THEN 0
  ELSE IF date = "2020/01/02" THEN 24
  ELSE IF date = "2020/01/03" THEN 48
  ELSE NoData

Sum(vals) == LET RECURSIVE S(_)
                 S(k) == IF k = 0 THEN 0 ELSE vals[k] + S(k - 1)
             IN S(Len(vals))

\* Series.min() in place of Series.max()
series_min(vals) == IF vals = <<>> THEN NoData ELSE Min(Range(vals))

\* Series.max(): null for an empty series
series_max(vals) == IF vals = <<>> THEN NoData ELSE Max(Range(vals))

\* the 50% of describe: the middle value, or the mean of the two middle values
quantile50(vals) ==
  LET sorted == SortSeq(vals, LAMBDA x, y : x < y)
      n == Len(vals)
  IN IF n = 0 THEN NoData
     ELSE IF n % 2 = 1 THEN sorted[(n + 1) \div 2]
     ELSE (sorted[n \div 2] + sorted[n \div 2 + 1]) \div 2

\* df.describe(percentiles=[0.5]) of one column: the mean is the fraction
\* <<sum, count>> and std the square root of the fraction given
describe(vals) ==
  LET n == Len(vals)
      sum == Sum(vals)
      sumsq == Sum([k \in 1..n |-> vals[k] * vals[k]])
  IN [c \in {"count", "mean", "std", "min", "50%", "max"} |->
        CASE c = "count" -> <<n>>
          [] c = "mean" -> IF n = 0 THEN <<>> ELSE <<sum, n>>
          [] c = "std" -> IF n < 2 THEN <<>> ELSE <<n * sumsq - sum * sum, n * (n - 1)>>
          [] c = "min" -> IF n = 0 THEN <<>> ELSE <<Min(Range(vals))>>
          [] c = "50%" -> IF n = 0 THEN <<>> ELSE <<quantile50(vals)>>
          [] c = "max" -> IF n = 0 THEN <<>> ELSE <<Max(Range(vals))>>]

\* the time steps of df kept by the filters on sdate and edate
filter_period(times, sdate, edate) ==
  {k \in 1..Len(times) :
     /\ sdate = "" \/ times[k] >= strptime(sdate)
     /\ edate = "" \/ times[k] <= strptime(edate)}

\* gdf.merge(df_stat, left_on="id", right_index=True): the features with a
\* row in df_stat, with the columns of both
merge_stat(layer, df_stat) ==
  LET rows == SelectSeq(layer, LAMBDA f : f["id"] \in DOMAIN df_stat)
  IN [i \in 1..Len(rows) |-> rows[i] @@ df_stat[rows[i]["id"]]]

\* statistics_dhydro; str_cmp tells whether pandas compares the date string
\* with the time stamp of the data (else the comparison raises TypeError)
statistics_dhydro(nc, a, str_cmp) ==
  LET data == nc.df
      sdata == Min(Range(data.times))
      edata == Max(Range(data.times))
      kept == filter_period(data.times, a.sdate, a.edate)
      column(id) == [k \in 1..Cardinality(kept) |->
                       data.cols[id][CHOOSE j \in kept :
                                     Cardinality({i \in kept : i <= j}) = k]]
      df_stat == IF a.stat = ""
                   THEN [id \in DOMAIN data.cols |->
                           [c \in DOMAIN describe(column(id)) |->
                              IF describe(column(id))[c] = <<>> THEN NoData
                              ELSE IF c \in {"mean", "std"} THEN describe(column(id))[c]
                              ELSE describe(column(id))[c][1]]]
                   ELSE [id \in DOMAIN data.cols |->
                           [c \in {"max"} |-> series_max(column(id))]]
      merged == IF a.stat \in {"", "max"} THEN merge_stat(nc.layer, df_stat)
                ELSE nc.layer
      Failed(error) == [status |-> error, gdf |-> <<>>]
  IN IF a.par \notin nc.variables THEN Failed("ValueError")
     ELSE IF a.sdate # "" /\ ~str_cmp THEN Failed("TypeError")
     ELSE IF a.sdate # "" /\ strptime(a.sdate) > edata THEN Failed("TypeError")
     ELSE IF a.edate # "" /\ ~str_cmp THEN Failed("TypeError")
     ELSE IF a.edate # "" /\ strptime(a.edate) < sdata THEN Failed("TypeError")
     ELSE IF merged = <<>> THEN Failed("IndexError")
     ELSE IF a.extension = ".tif" THEN Failed("TypeError")
     ELSE [status |-> "ok", gdf |-> merged]

\* the map files read: a series per feature at noon of each day
MapFiles ==
  {[variables |-> {"mesh1d_s1"},
    df |-> [times |-> [k \in 1..n |-> 12 + 24 * (k - 1)],
            cols |-> [id \in {"f1", "f2"} |-> IF id = "f1" THEN f1 ELSE f2]],
    layer |-> <<[c \in {"id", "geometry"} |-> IF c = "id" THEN "f1" ELSE "POINT (0 0)"],
                [c \in {"id", "geometry"} |-> IF c = "id" THEN "f2" ELSE "POINT (1 0)"]>>] :
     n \in 1..MaxTimes, f1 \in SeqsOf({100, 500}, 1, MaxTimes),
     f2 \in SeqsOf({300}, 1, MaxTimes)}

MapFilesRead ==
  {nc \in MapFiles : \A id \in DOMAIN nc.df.cols :
                       Len(nc.df.cols[id]) = Len(nc.df.times)}

StatisticsCalls ==
  [par : {"mesh1d_s1", "mesh1d_q1"}, sdate : {"", "2020/01/02"},
   edate : {"", "2020/01/01", "2020/01/03"}, extension : {"", ".shp", ".tif"},
   stat : {"", "max", "min"}]

StatisticsDhydro ==
  \E a \in StatisticsCalls, str_cmp \in BOOLEAN :
    /\ gdf' = statistics_dhydro(input_path, a, str_cmp).gdf
    /\ last' = [op |-> "statistics_dhydro",
                status |-> statistics_dhydro(input_path, a, str_cmp).status,
                written |-> {}, args |-> a]
    /\ UNCHANGED <<plugin_vars, ncalls, mesh_vars, friction_vars, boundary_vars, his_vars,
                   input_path, workflow_vars>>

\* SpecStatistics: statistics_dhydro run on a map file
InitStatistics ==
  /\ PluginInit({TRUE}) /\ MeshInit
  /\ frictfile = <<>> /\ output_path = <<>>
  /\ df = <<>> /\ da_out = NoArray
  /\ ds = <<>> /\ timeframe = <<>>
  /\ input_path \in MapFilesRead
  /\ gdf = <<>>
  /\ returned = <<>>
  /\ given = <<>>

NextStatistics == StatisticsDhydro

SpecStatistics == InitStatistics /\ [][NextStatistics]_vars

(* ------------- dhydamo/geometry/mesh.py: the other 1D-2D links --------- *)
\* Link1d2d._process: the contacts computed by the kernel (pairs of a 1D node
\* and a 2D face, counted from 0) appended to the four arrays
_process(link, contacts) ==
  LET name(c) == ToString(c[1]) \o "_" \o ToString(c[2])
  IN [link1d2d |-> link.link1d2d \o contacts,
      link1d2d_contact_type |-> link.link1d2d_contact_type \o [i \in 1..Len(contacts) |-> 3],
      link1d2d_id |-> link.link1d2d_id \o [i \in 1..Len(contacts) |-> name(contacts[i])],
      link1d2d_long_name |-> link.link1d2d_long_name
                               \o [i \in 1..Len(contacts) |-> "link_" \o name(contacts[i])]]

\* the sides of face f, each the set of its two nodes
face_sides(mesh2d, f) ==
  {{mesh2d.face_nodes[4 * (f - 1) + c], mesh2d.face_nodes[4 * (f - 1) + (c % 4) + 1]} :
     c \in 1..4}

\* mesh2d_get_mesh_boundaries_as_polygons, the exterior rings: the sides that
\* belong to one face only, each as <<x1, y1, x2, y2>>
mesh_boundaries(mesh2d) ==
  LET faces == 1..Len(mesh2d.nodes_per_face)
      sides == UNION {face_sides(mesh2d, f) : f \in faces}
      outer == {e \in sides : Cardinality({f \in faces : e \in face_sides(mesh2d, f)}) = 1}
      lo(e) == CHOOSE n \in e : \A m \in e : n <= m
      hi(e) == CHOOSE n \in e : \A m \in e : n >= m
  IN {<<mesh2d.node_x[lo(e) + 1], mesh2d.node_y[lo(e) + 1],
        mesh2d.node_x[hi(e) + 1], mesh2d.node_y[hi(e) + 1]>> : e \in outer}

boundary_face(mesh2d, f) ==
  \E e \in face_sides(mesh2d, f) :
    \A g \in 1..Len(mesh2d.nodes_per_face) : e \in face_sides(mesh2d, g) => g = f

\* the masked 1D node closest to (x, y) and nearer than search_radius, the
\* first of them when several are as close; 0 when there is none
closest_node(mesh1d, node_mask, x, y, search_radius) ==
  LET d2(k) == (mesh1d.node_x[k] - x) * (mesh1d.node_x[k] - x)
               + (mesh1d.node_y[k] - y) * (mesh1d.node_y[k] - y)
      near == {k \in 1..Len(mesh1d.node_x) :
                 /\ node_mask[k]
                 /\ hypot_below(mesh1d.node_x[k] - x, mesh1d.node_y[k] - y, search_radius)}
  IN IF near = {} THEN 0
     ELSE CHOOSE k \in near : \A j \in near : d2(k) < d2(j) \/ (d2(k) = d2(j) /\ k <= j)

\* the kernel's contacts_compute_boundary: every face on the boundary of the
\* 2D mesh is linked to the closest masked 1D node within the search radius
contacts_compute_boundary(mesh1d, mesh2d, node_mask, search_radius) ==
  LET node(f) == closest_node(mesh1d, node_mask, mesh2d.face_x[f], mesh2d.face_y[f],
                              search_radius)
      faces == SelectSeq([f \in 1..Len(mesh2d.nodes_per_face) |-> f],
                 LAMBDA f : boundary_face(mesh2d, f) /\ node(f) # 0)
  IN [i \in 1..Len(faces) |-> <<node(faces[i]) - 1, faces[i] - 1>>]

Cross(ax, ay, bx, by) == ax * by - ay * bx

\* the point where the line from p to q meets the side e, as the fraction
\* <<n, d>> of the way from p to q; <<>> when they do not meet in one point
isect_point(px, py, qx, qy, e) ==
  LET den == Cross(qx - px, qy - py, e[3] - e[1], e[4] - e[2])
      sgn == IF den < 0 THEN -1 ELSE 1
      t == sgn * Cross(e[1] - px, e[2] - py, e[3] - e[1], e[4] - e[2])
      u == sgn * Cross(e[1] - px, e[2] - py, qx - px, qy - py)
      d == sgn * den
  IN IF d # 0 /\ 0 <= t /\ t <= d /\ 0 <= u /\ u <= d THEN <<t, d>> ELSE <<>>

\* multilinestring.intersection(LineString([face2d, node1d])): the distinct
\* points, each once
intersection(boundaries, px, py, qx, qy) ==
  LET found == {isect_point(px, py, qx, qy, e) : e \in boundaries} \ {<<>>}
  IN {p \in found : \A q \in found : p[1] * q[2] = q[1] * p[2] => p[2] <= q[2]}

\* the distance between the centre of face f and its sides, summed over the
\* four sides; the sides are parallel to the axes
distance_sum(mesh2d, f) ==
  LET x0 == mesh2d.face_x[f]
      y0 == mesh2d.face_y[f]
      n(c) == mesh2d.face_nodes[4 * (f - 1) + c] + 1
      side(c) ==
        LET x1 == mesh2d.node_x[n(c)]
            y1 == mesh2d.node_y[n(c)]
            x2 == mesh2d.node_x[n(((c + 2) % 4) + 1)]
            y2 == mesh2d.node_y[n(((c + 2) % 4) + 1)]
        IN Abs((x2 - x1) * (y1 - y0) - (x1 - x0) * (y2 - y1))
             \div (Abs(x2 - x1) + Abs(y2 - y1))
  IN side(1) + side(2) + side(3) + side(4)

\* the test of one generated link: one intersection with the boundary, nearer
\* to the face centre than the mean distance to the sides times dist_factor
lateral_link_kept(mesh1d, mesh2d, boundaries, c, dist_factor) ==
  LET px == mesh2d.face_x[c[2] + 1]
      py == mesh2d.face_y[c[2] + 1]
      qx == mesh1d.node_x[c[1] + 1]
      qy == mesh1d.node_y[c[1] + 1]
      isect == intersection(boundaries, px, py, qx, qy)
      t == CHOOSE p \in isect : TRUE
      comp == distance_sum(mesh2d, c[2] + 1) * dist_factor
  IN /\ Cardinality(isect) = 1
     /\ 16 * t[1] * t[1] * ((qx - px) * (qx - px) + (qy - py) * (qy - py))
          < comp * comp * t[2] * t[2]

\* links1d2d_add_links_2d_to_1d_lateral; within is None, dist_factor None is
\* NoData; keep holds the positions of the links present before, then the
\* positions of the kept links counted among the generated ones
links1d2d_add_links_2d_to_1d_lateral(link, mesh1d, mesh2d, dist_factor, branchids, max_length) ==
  LET node_mask == get_node_mask(mesh1d, branchids)
      npresent == Len(link.link1d2d)
      generated == _process(link, contacts_compute_boundary(mesh1d, mesh2d, node_mask,
                                                            max_length))
      nnew == Len(generated.link1d2d) - npresent
      kept == SelectSeq([i \in 1..nnew |-> i - 1],
                LAMBDA i : lateral_link_kept(mesh1d, mesh2d, mesh_boundaries(mesh2d),
                                             generated.link1d2d[npresent + i + 1],
                                             dist_factor))
      keep == [i \in 1..npresent |-> i - 1] \o kept
  IN IF dist_factor = NoData THEN generated
     ELSE [f \in DOMAIN generated |-> [i \in 1..Len(keep) |-> generated[f][keep[i] + 1]]]

\* whether the lines from p to q and from r to s have a point in common
segments_intersect(px, py, qx, qy, rx, ry, sx, sy) ==
  LET d1 == Cross(sx - rx, sy - ry, px - rx, py - ry)
      d2 == Cross(sx - rx, sy - ry, qx - rx, qy - ry)
      d3 == Cross(qx - px, qy - py, rx - px, ry - py)
      d4 == Cross(qx - px, qy - py, sx - px, sy - py)
      between(a, b, c) == (a <= c /\ c <= b) \/ (b <= c /\ c <= a)
  IN \/ /\ (d1 < 0 /\ d2 > 0) \/ (d1 > 0 /\ d2 < 0)
        /\ (d3 < 0 /\ d4 > 0) \/ (d3 > 0 /\ d4 < 0)
     \/ d1 = 0 /\ between(rx, sx, px) /\ between(ry, sy, py)
     \/ d2 = 0 /\ between(rx, sx, qx) /\ between(ry, sy, qy)
     \/ d3 = 0 /\ between(px, qx, rx) /\ between(py, qy, ry)
     \/ d4 = 0 /\ between(px, qx, sx) /\ between(py, qy, sy)

\* links1d2d_add_links_2d_to_1d_embedded; within is None: the faces whose
\* outline LineString(face_crds), the three sides between its four nodes,
\* meets an edge of the 1D mesh are linked to the closest masked 1D node
links1d2d_add_links_2d_to_1d_embedded(link, mesh1d, mesh2d, branchids) ==
  LET node_mask == get_node_mask(mesh1d, branchids)
      edges1d == {k \in 1..(Len(mesh1d.node_x) - 1) : mesh1d.branch[k] = mesh1d.branch[k + 1]}
      n(f, c) == mesh2d.face_nodes[4 * (f - 1) + c] + 1
      crossed(f) ==
        \E c \in 1..3, k \in edges1d :
          segments_intersect(mesh2d.node_x[n(f, c)], mesh2d.node_y[n(f, c)],
                             mesh2d.node_x[n(f, c + 1)], mesh2d.node_y[n(f, c + 1)],
                             mesh1d.node_x[k], mesh1d.node_y[k],
                             mesh1d.node_x[k + 1], mesh1d.node_y[k + 1])
      node(f) == closest_node(mesh1d, node_mask, mesh2d.face_x[f], mesh2d.face_y[f], inf)
      idx == SelectSeq([f \in 1..Len(mesh2d.nodes_per_face) |-> f],
               LAMBDA f : crossed(f) /\ node(f) # 0)
  IN _process(link, [i \in 1..Len(idx) |-> <<node(idx[i]) - 1, idx[i] - 1>>])

\* links1d2d_add_links_1d_to_2d_include_boundary; within is None: the links
\* of _link_from_1d_to_2d, then those of contacts_compute_boundary with a
\* search radius of ten times max_length, then the filter on the length
links1d2d_add_links_1d_to_2d_include_boundary(link, mesh1d, mesh2d, branchids, max_length) ==
  LET node_mask == get_node_mask(mesh1d, branchids)
      npresent == Len(link.link1d2d)
      search_radius == IF max_length = inf THEN inf ELSE max_length * 10
      generated == _process(_link_from_1d_to_2d(link, mesh1d, mesh2d, node_mask),
                            contacts_compute_boundary(mesh1d, mesh2d, node_mask,
                                                      search_radius))
      nnew == Len(generated.link1d2d) - npresent
      id1d == [i \in 1..nnew |-> generated.link1d2d[npresent + i][1]]
      id2d == [i \in 1..nnew |-> generated.link1d2d[npresent + i][2]]
      below == SelectSeq([i \in 1..nnew |-> i - 1],
                 LAMBDA i : hypot_below(mesh1d.node_x[id1d[i + 1] + 1] - mesh2d.face_x[id2d[i + 1] + 1],
                                        mesh1d.node_y[id1d[i + 1] + 1] - mesh2d.face_y[id2d[i + 1] + 1],
                                        max_length))
      keep == [i \in 1..npresent |-> i - 1] \o [i \in 1..Len(below) |-> below[i] + npresent]
  IN _filter_links_on_idx(generated, keep)

\* 1D nodes on the line x, beside or between the 2D meshes
Mesh1dBeside(x) ==
  [node_x |-> <<x, x, x, x>>, node_y |-> <<-3, 2, 5, 9>>,
   branch |-> <<"a", "a", "b", "b">>]

Mesh1dNetworks == {Mesh1dLine(2), Mesh1dBeside(10), Mesh1dBeside(18)}

\* one strip of cells, or two strips apart
Mesh2dNetworks ==
  {Rectilinear(nx, 1, 0, 0, 4) : nx \in 1..MaxCells}
    \cup {mesh2d_add_rectilinear(Rectilinear(1, 1, 0, 0, 4), Rectilinear(1, 1, 12, 0, 4))}

\* the arguments of the link-generation calls
LinkBranchids == {<<>>, <<"b">>}

LinkMaxLengths == {3, inf}

DistFactors == {NoData, 1, 2}

LateralCalls ==
  [dist_factor : DistFactors, branchids : LinkBranchids, max_length : {inf}]

LinkCalls == [branchids : LinkBranchids, max_length : LinkMaxLengths]

EmbeddedCalls == [branchids : LinkBranchids]

Links1d2dAddLinks2dTo1dLateral ==
  \E a \in LateralCalls :
    /\ ncalls < MaxLinkCalls
    /\ _link1d2d' = links1d2d_add_links_2d_to_1d_lateral(
                      _link1d2d, _mesh1d, _mesh2d, a.dist_factor, a.branchids, a.max_length)
    /\ Called("links1d2d_add_links_2d_to_1d_lateral", a)
    /\ UNCHANGED <<_mesh1d, _mesh2d>>

Links1d2dAddLinks2dTo1dEmbedded ==
  \E a \in EmbeddedCalls :
    /\ ncalls < MaxLinkCalls
    /\ _link1d2d' = links1d2d_add_links_2d_to_1d_embedded(_link1d2d, _mesh1d, _mesh2d,
                                                          a.branchids)
    /\ Called("links1d2d_add_links_2d_to_1d_embedded", a)
    /\ UNCHANGED <<_mesh1d, _mesh2d>>

Links1d2dAddLinks1dTo2dIncludeBoundary ==
  \E a \in LinkCalls :
    /\ ncalls < MaxLinkCalls
    /\ _link1d2d' = links1d2d_add_links_1d_to_2d_include_boundary(
                      _link1d2d, _mesh1d, _mesh2d, a.branchids, a.max_length)
    /\ Called("links1d2d_add_links_1d_to_2d_include_boundary", a)
    /\ UNCHANGED <<_mesh1d, _mesh2d>>

Links1d2dAddLinks1dTo2dOf ==
  \E a \in LinkCalls :
    /\ ncalls < MaxLinkCalls
    /\ _link1d2d' = links1d2d_add_links_1d_to_2d(_link1d2d, _mesh1d, _mesh2d,
                                                 a.branchids, a.max_length)
    /\ Called("links1d2d_add_links_1d_to_2d", a)
    /\ UNCHANGED <<_mesh1d, _mesh2d>>

\* SpecLinkCalls: the four link-generation entry points called in any order
\* on a network with a 1D and a 2D mesh
InitLinkCalls ==
  /\ PluginInit({TRUE})
  /\ _mesh1d \in Mesh1dNetworks
  /\ _mesh2d \in Mesh2dNetworks
  /\ _link1d2d = EmptyLink1d2d
  /\ ScriptsIdle

NextLinkCalls ==
  \/ Links1d2dAddLinks1dTo2dOf
  \/ Links1d2dAddLinks1dTo2dIncludeBoundary
  \/ Links1d2dAddLinks2dTo1dEmbedded
  \/ Links1d2dAddLinks2dTo1dLateral

SpecLinkCalls == InitLinkCalls /\ [][NextLinkCalls]_vars

(* ------------ workflows/crosssections.py: point cross-sections --------- *)
\* largest number of point cross-sections in one call
MaxPoints == 2

\* a call of a workflow function with the arguments a has ended with status
Returned(op, a, status) ==
  /\ last' = [op |-> op, status |-> status, written |-> {}, args |-> a]
  /\ UNCHANGED <<plugin_vars, ncalls, mesh_vars, friction_vars, boundary_vars, his_vars,
                 statistics_vars, given>>

\* the workflow function has not been called yet
NotCalled == last.op = "__init__"

\* find_nearest_branch(branches, geometries, method, maxdist): the branch
\* nearest to each geometry and the chainage along it; both are left null
\* when the branch is farther than maxdist
find_nearest_branch(branches, geometries, maxdist) ==
  [i \in 1..Len(geometries) |->
     LET g == geometries[i]
         near == {k \in 1..Len(branches) : Abs(branches[k].y - g.y) <= maxdist}
         k == CHOOSE k \in near :
                \A j \in near : Abs(branches[k].y - g.y) <= Abs(branches[j].y - g.y)
     IN IF near = {} THEN [g EXCEPT !.branch_id = "", !.branch_offset = NoData]
        ELSE [g EXCEPT !.branch_id = branches[k].branchId, !.branch_offset = g.x]]

\* the columns that hold a value in the rows built for one shape
PointColumns(shape) ==
  {"crsloc_id", "crsloc_branchId", "crsloc_chainage", "crsloc_shift", "crsloc_definitionId",
   "geometry", "crsdef_id", "crsdef_type", "crsdef_branchId", "crsdef_frictionId"}
    \cup (CASE shape = "rectangle" -> {"crsdef_height", "crsdef_width", "crsdef_closed"}
            [] shape = "trapezoid" -> {"crsdef_numlevels", "crsdef_levels", "crsdef_flowwidths",
                                       "crsdef_totalwidths", "crsdef_closed"}
            [] shape = "zw" -> {"crsdef_numlevels", "crsdef_levels", "crsdef_flowwidths",
                                "crsdef_totalwidths"}
            [] shape = "yz" -> {"crsdef_yzcount", "crsdef_ycoordinates",
                                "crsdef_zcoordinates"}
            [] OTHER -> {})

_set_zw_crs(crosssections) ==
  merge_loc_def(
    [i \in 1..Len(crosssections) |->
       crsloc_record(crosssections[i] @@ [definitionid |-> crosssections[i].Index])],
    [i \in 1..Len(crosssections) |->
       LET c == crosssections[i]
       IN [crsdef_id |-> c.Index, crsdef_type |-> "zw", crsdef_branchId |-> c.branch_id,
           crsdef_numlevels |-> c.numlevels, crsdef_levels |-> c.levels,
           crsdef_flowwidths |-> c.flowwidths, crsdef_totalwidths |-> c.totalwidths,
           crsdef_frictionId |-> c.frictionId]])

\* the yz columns are kept next to those of the combined table
_set_yz_crs(crosssections) ==
  LET rows == merge_loc_def(
        [i \in 1..Len(crosssections) |->
           crsloc_record(crosssections[i] @@ [definitionid |-> crosssections[i].Index])],
        [i \in 1..Len(crosssections) |->
           LET c == crosssections[i]
           IN [crsdef_id |-> c.Index, crsdef_type |-> "yz", crsdef_branchId |-> c.branch_id,
               crsdef_frictionId |-> c.frictionId]])
  IN [i \in 1..Len(rows) |->
        rows[i] @@ [crsdef_yzcount |-> crosssections[i].yzcount,
                    crsdef_ycoordinates |-> crosssections[i].ycoordinates,
                    crsdef_zcoordinates |-> crosssections[i].zcoordinates]]

\* the definitionid of a rectangle or trapezoid point: as for a branch, with
\* the suffix point
point_definitionid(c) ==
  IF c.shape = "rectangle"
    THEN "rect_h" \o Fmt3(c.height) \o "_w" \o Fmt3(c.width) \o "_c" \o c.closed \o "_point"
    ELSE "trapz_h" \o Fmt1(c.height) \o "_bw" \o Fmt1(c.width) \o "_tw" \o Fmt1(c.t_width)
           \o "_c" \o c.closed \o "_point"

\* set_point_crosssections: the snap, the per-shape loop in the order the
\* shapes first appear, dropna, and the closed column. The zw and the yz
\* branch read trapezoid_crs, which is bound only once the trapezoid branch
\* has run
set_point_crosssections(branches, crosssections, maxdist) ==
  LET snapped == SelectSeq(find_nearest_branch(branches, crosssections, maxdist),
                           LAMBDA c : c.branch_id # "" /\ c.branch_offset # NoData)
      merged == [i \in 1..Len(snapped) |->
                   [snapped[i] EXCEPT !.frictionId =
                      (CHOOSE b \in Range(branches) : b.branchId = snapped[i].branch_id).frictionId]]
      all_shapes == unique([i \in 1..Len(merged) |-> merged[i].shape])
      of(shape) == SelectSeq(merged, LAMBDA c : c.shape = shape)
      with_id(shape) == [i \in 1..Len(of(shape)) |->
                           of(shape)[i] @@ [definitionid |-> point_definitionid(of(shape)[i])]]
      unbound == \E k \in 1..Len(all_shapes) :
                   /\ all_shapes[k] \in {"zw", "yz"}
                   /\ \A j \in 1..(k - 1) : all_shapes[j] # "trapezoid"
      built == Flatten([k \in 1..Len(all_shapes) |->
                 LET shape == all_shapes[k]
                 IN IF shape = "rectangle" THEN _set_rectangle_crs(with_id(shape))
                    ELSE IF shape = "trapezoid" THEN _set_trapezoid_crs(with_id(shape))
                    ELSE IF shape = "zw" THEN _set_zw_crs(of(shape))
                    ELSE IF shape = "yz" THEN _set_yz_crs(of(shape))
                    ELSE <<>>])
      shape_of(r) == IF r.crsdef_type = "zw" /\ r.crsdef_closed # "" THEN "trapezoid"
                     ELSE r.crsdef_type
      columns == UNION {PointColumns(shape_of(built[i])) : i \in 1..Len(built)}
      dropna == SelectSeq(built, LAMBDA r : PointColumns(shape_of(r)) = columns)
  IN IF unbound THEN [status |-> "UnboundLocalError", value |-> <<>>]
     ELSE IF "crsdef_closed" \notin columns THEN [status |-> "KeyError", value |-> <<>>]
     ELSE [status |-> "ok",
           value |-> drop_duplicates(
                       [i \in 1..Len(dropna) |->
                          [dropna[i] EXCEPT !.crsdef_thalweg = 0,
                                            !.crsdef_closed = replace_closed(@)]])]

\* a point cross-section of the given shape with complete attributes, at
\* chainage x and distance y of the branch
PointCrosssection(id, shape, x, y) ==
  [Index |-> id, shape |-> shape, shift |-> 0, geometry |-> <<x, y>>, x |-> x, y |-> y,
   branch_id |-> "", branch_offset |-> NoData, frictionId |-> "",
   height |-> 100, width |-> 200, t_width |-> 300, closed |-> "no",
   numlevels |-> 2, levels |-> "0 1", flowwidths |-> "2 3", totalwidths |-> "2 3",
   yzcount |-> 2, ycoordinates |-> "0 2", zcoordinates |-> "1 0"]

PointShapes == {"rectangle", "trapezoid", "zw", "yz", "circle"}

PointTables ==
  UNION {{[i \in 1..n |-> PointCrosssection("crs" \o ToString(i), shape[i], 1000 * i, y[i])] :
            shape \in [1..n -> PointShapes], y \in [1..n -> {50, 300}]} :
         n \in 1..MaxPoints}

\* one branch along the x axis
PointBranches == <<[branchId |-> "a", y |-> 0, frictionId |-> "Manning_0.023"]>>

SetPointCrosssections ==
  /\ NotCalled
  /\ returned' = set_point_crosssections(PointBranches, given, 100).value
  /\ Returned("set_point_crosssections", given,
              set_point_crosssections(PointBranches, given, 100).status)

\* SpecPoints: set_point_crosssections called on tables of points
InitPoints == PluginInit({TRUE}) /\ MeshInit /\ NothingReturned /\ given \in PointTables

NextPoints == SetPointCrosssections

SpecPoints == InitPoints /\ [][NextPoints]_vars

(* --------- workflows/crosssections.py: xyz cross-sections -------------- *)
\* largest number of survey points in one table
MaxXyzPoints == 3

\* "{:.4f}".format(v): four decimals, exact for hundredths
Fmt4(v) == ToString(v \div 100) \o "." \o
           (IF v % 100 < 10 THEN "0" ELSE "") \o ToString(v % 100) \o "00"

\* " ".join(["{:.1f}".format(i) for i in l])
JoinFmt1(l) ==
  LET RECURSIVE J(_)
      J(s) == IF s = <<>> THEN ""
              ELSE IF Len(s) = 1 THEN Fmt1(s[1])
              ELSE Fmt1(s[1]) \o " " \o J(Tail(s))
  IN J(l)

\* np.hypot(dx, dy), in hundredths
hypot(dx, dy) ==
  CHOOSE r \in 0..(Abs(dx) + Abs(dy)) :
    r * r <= dx * dx + dy * dy /\ dx * dx + dy * dy < (r + 1) * (r + 1)

\* the row a comes before the row b in the columns named by
KeyBefore(a, b, by) ==
  \E k \in 1..Len(by) : a[by[k]] < b[by[k]] /\ \A j \in 1..(k - 1) : a[by[j]] = b[by[j]]

\* the rows left in the order of the table
sort_values_as_given(xyz, by) == xyz

\* xyz.sort_values(by): the rows in the order of the columns named by; rows
\* that agree in them keep their order
sort_values(xyz, by) ==
  LET RECURSIVE S(_)
      S(s) == IF s = <<>> THEN <<>>
              ELSE LET rest == S(Tail(s))
                       n == Cardinality({i \in 1..Len(rest) : KeyBefore(rest[i], Head(s), by)})
                   IN SubSeq(rest, 1, n) \o <<Head(s)>> \o SubSeq(rest, n + 1, Len(rest))
  IN S(xyz)

\* the survey points of one cross-section as a polyline, with the distance
\* along it and the levels
xyzp2xyzl(xyz, sort_by) ==
  LET xyz_sorted == sort_values(xyz, sort_by)
      n == Len(xyz_sorted)
      seg(i) == hypot(xyz_sorted[i + 1].x - xyz_sorted[i].x,
                      xyz_sorted[i + 1].y - xyz_sorted[i].y)
  IN [geometry |-> [i \in 1..n |-> <<xyz_sorted[i].x, xyz_sorted[i].y>>],
      l |-> [i \in 1..n |-> Sum([j \in 1..(i - 1) |-> seg(j)])],
      index |-> xyz[1].Index,
      x |-> [i \in 1..n |-> xyz_sorted[i].x],
      y |-> [i \in 1..n |-> xyz_sorted[i].y],
      z |-> [i \in 1..n |-> xyz_sorted[i].z]]

\* crosssections.groupby(level=0): the rows of each index value, the index
\* values in increasing order
groupby_index(crosssections) ==
  LET keys == {crosssections[i].Index : i \in 1..Len(crosssections)}
      RECURSIVE G(_)
      G(ks) == IF ks = {} THEN <<>>
               ELSE LET k == Min(ks)
                    IN <<SelectSeq(crosssections, LAMBDA p : p.Index = k)>> \o G(ks \ {k})
  IN G(keys)

\* the chainages at which a polyline crosses a branch that runs along the
\* x axis at height branch.y
crossings(branch, line) ==
  {c \in 0..branch.length :
     \E i \in 1..(Len(line) - 1) :
       LET x1 == line[i][1]
           y1 == line[i][2]
           x2 == line[i + 1][1]
           y2 == line[i + 1][2]
       IN /\ y1 # y2
          /\ (y1 - branch.y) * (y2 - branch.y) <= 0
          /\ (c - x1) * (y2 - y1) = (x2 - x1) * (branch.y - y1)}

\* find_nearest_branch(branches, geometries, method="intersecting"): the
\* first branch a line crosses and the chainage of the crossing; both are left
\* null for a line that crosses no branch
find_nearest_branch_intersecting(branches, geometries) ==
  [i \in 1..Len(geometries) |->
     LET g == geometries[i]
         hit == {k \in 1..Len(branches) : crossings(branches[k], g.geometry) # {}}
     IN IF hit = {} THEN g @@ [branch_id |-> "", branch_offset |-> NoData]
        ELSE g @@ [branch_id |-> branches[Min(hit)].branchId,
                   branch_offset |-> Min(crossings(branches[Min(hit)], g.geometry))]]

\* geometry.length of a polyline
line_length(line) ==
  Sum([i \in 1..(Len(line) - 1) |->
         hypot(line[i + 1][1] - line[i][1], line[i + 1][2] - line[i][2])])

\* geometry.centroid of a polyline: the mean of the segment midpoints weighted
\* by the segment lengths
line_centroid(line) ==
  LET w(i) == hypot(line[i + 1][1] - line[i][1], line[i + 1][2] - line[i][2])
      total == line_length(line)
  IN IF total = 0 THEN line[1]
     ELSE <<Sum([i \in 1..(Len(line) - 1) |-> w(i) * (line[i][1] + line[i + 1][1])])
              \div (2 * total),
            Sum([i \in 1..(Len(line) - 1) |-> w(i) * (line[i][2] + line[i + 1][2])])
              \div (2 * total)>>

\* the definition built from one snapped cross-section
xyz_crsdef(branches, c) ==
  LET b == CHOOSE b \in Range(branches) : b.branchId = c.branch_id
  IN [crsdef_id |-> c.index,
      crsdef_type |-> "xyz",
      crsdef_branchId |-> c.branch_id,
      crsdef_xyzCount |-> Len(c.x),
      crsdef_xCoordinates |-> JoinFmt1(c.x),
      crsdef_yCoordinates |-> JoinFmt1(c.y),
      crsdef_zCoordinates |-> JoinFmt1(c.z),
      crsdef_frictionIds |-> b.frictionId,
      frictionType |-> b.frictionType,
      frictionValue |-> b.frictionValue,
      crsdef_frictionPositions |-> "0 " \o Fmt4(line_length(c.geometry))]

\* the location built from one snapped cross-section
xyz_crsloc(c) ==
  [crsloc_id |-> c.branch_id \o "_" \o Fmt2(c.branch_offset),
   crsloc_branchId |-> c.branch_id,
   crsloc_chainage |-> c.branch_offset,
   crsloc_shift |-> 0,
   crsloc_definitionId |-> c.index,
   geometry |-> line_centroid(c.geometry)]

\* pd.merge(crslocs, crsdefs, how="left", left_on=["crsloc_definitionId"],
\* right_on=["crsdef_id"]) with the column crsdef_thalweg added
merge_xyz(crslocs, crsdefs) ==
  Flatten([i \in 1..Len(crslocs) |->
    LET m == SelectSeq(crsdefs, LAMBDA d : d.crsdef_id = crslocs[i].crsloc_definitionId)
    IN [j \in 1..Len(m) |-> crslocs[i] @@ m[j] @@ [crsdef_thalweg |-> 0]]])

\* set_xyz_crosssections(branches, crosssections); a group of one point makes
\* no LineString
set_xyz_crosssections(branches, crosssections) ==
  LET groups == groupby_index(crosssections)
      lines == [i \in 1..Len(groups) |-> xyzp2xyzl(groups[i], <<"order">>)]
      found == find_nearest_branch_intersecting(branches, lines)
      snapped == SelectSeq(found, LAMBDA c : c.branch_offset # NoData)
  IN IF \E i \in 1..Len(groups) : Len(groups[i]) < 2
       THEN [status |-> "ValueError", value |-> <<>>]
       ELSE [status |-> "ok",
             value |-> drop_duplicates(
                         merge_xyz([i \in 1..Len(snapped) |-> xyz_crsloc(snapped[i])],
                                   [i \in 1..Len(snapped) |->
                                      xyz_crsdef(branches, snapped[i])]))]

\* survey points at three corners of a rectangle that the branch runs through:
\* <<Index, order, x, y, z>>
XyzSurvey ==
  {<<1, 2, 0, 0, 110>>, <<1, 1, 300, 400, 330>>, <<1, 1, 0, 400, 220>>,
   <<1, 2, 300, 400, 330>>, <<2, 1, 0, 0, 110>>, <<2, 2, 0, 400, 220>>}

XyzPoints ==
  {[Index |-> c[1], order |-> c[2], x |-> c[3], y |-> c[4], z |-> c[5]] : c \in XyzSurvey}

XyzTables == SeqsOf(XyzPoints, 1, MaxXyzPoints)

\* one branch parallel to the x axis
XyzBranches ==
  <<[branchId |-> "a", y |-> 200, length |-> 300, frictionId |-> "Manning_0.023",
     frictionType |-> "Manning", frictionValue |-> 2]>>

SetXyzCrosssections ==
  /\ NotCalled
  /\ returned' = set_xyz_crosssections(XyzBranches, given).value
  /\ Returned("set_xyz_crosssections", given, set_xyz_crosssections(XyzBranches, given).status)

\* SpecXyz: set_xyz_crosssections called on tables of survey points
InitXyz == PluginInit({TRUE}) /\ MeshInit /\ NothingReturned /\ given \in XyzTables

NextXyz == SetXyzCrosssections

SpecXyz == InitXyz /\ [][NextXyz]_vars

(* ------------------- utils.py: write_friction -------------------------- *)
\* largest number of cross-section rows handed to write_friction
MaxFrictionRows == 3

\* row.frictiontype[0]
first_letter(frictiontype) ==
  CASE frictiontype = "Manning" -> "M"
    [] frictiontype = "Chezy" -> "C"
    [] frictiontype = "WhiteColebrook" -> "W"
    [] frictiontype = "WallLawNikuradse" -> "W"

\* str(row.frictionvalue).replace('.', 'p') of a value given in hundredths
str_p(v) ==
  ToString(v \div 100) \o "p" \o
    (IF v % 10 = 0 THEN ToString((v % 100) \div 10)
     ELSE (IF v % 100 < 10 THEN "0" ELSE "") \o ToString(v % 100))

\* the name of the file of one friction row
fric_filename(row) ==
  "roughness_" \o first_letter(row.frictiontype) \o "-" \o str_p(row.frictionvalue) \o ".ini"

\* DataFrame.drop_duplicates(subset="frictionid"): the first row of every
\* frictionid
drop_duplicates_frictionid(rows) ==
  SelectSeq([i \in 1..Len(rows) |-> rows[i] @@ [pos |-> i]],
            LAMBDA r : \A j \in 1..(r.pos - 1) : rows[j].frictionid # r.frictionid)

\* write_friction(gdf, savedir): the names returned and the files that stand
\* in savedir afterwards, a later file of one name replacing an earlier one
write_friction(gdf_crs) ==
  LET own == SelectSeq([i \in 1..Len(gdf_crs) |->
                          [frictionid |-> gdf_crs[i].crsdef_frictionid,
                           frictionvalue |-> gdf_crs[i].frictionvalue,
                           frictiontype |-> gdf_crs[i].frictiontype]],
                       LAMBDA r : r.frictionid # "")
      xyz == IF \E i \in 1..Len(gdf_crs) : "crsdef_frictionids" \in DOMAIN gdf_crs[i]
               THEN SelectSeq([i \in 1..Len(gdf_crs) |->
                                 [frictionid |-> gdf_crs[i].crsdef_frictionids,
                                  frictionvalue |-> gdf_crs[i].frictionvalue,
                                  frictiontype |-> gdf_crs[i].frictiontype]],
                              LAMBDA r : r.frictionid # "")
               ELSE <<>>
      frictions == drop_duplicates_frictionid(own \o xyz)
      friction_fns == [i \in 1..Len(frictions) |-> fric_filename(frictions[i])]
      written == {i \in 1..Len(frictions) :
                    \A j \in (i + 1)..Len(frictions) : friction_fns[j] # friction_fns[i]}
  IN [status |-> "ok",
      value |-> [friction_fns |-> friction_fns,
                 files |-> {[filepath |-> friction_fns[i],
                             frictionid |-> frictions[i].frictionid,
                             frictionvalue |-> frictions[i].frictionvalue,
                             frictiontype |-> frictions[i].frictiontype] : i \in written}]]

\* the rows of a cross-section table: <<frictionid, value, type>>, the
\* frictionid being that of the type and the value, or missing
FrictionKinds ==
  {<<"Manning_0.03", 3, "Manning">>, <<"WhiteColebrook_0.03", 3, "WhiteColebrook">>,
   <<"WallLawNikuradse_0.03", 3, "WallLawNikuradse">>, <<"Chezy_45.5", 4550, "Chezy">>}

FrictionRows ==
  {[crsdef_frictionid |-> k[1], frictionvalue |-> k[2], frictiontype |-> k[3]] :
     k \in FrictionKinds}
    \cup {[crsdef_frictionid |-> "", crsdef_frictionids |-> "Manning_0.03", frictionvalue |-> 3,
           frictiontype |-> "Manning"]}

\* a table has the column crsdef_frictionids in all rows or in none
FrictionTables ==
  {[i \in 1..Len(t) |->
      IF \E j \in 1..Len(t) : "crsdef_frictionids" \in DOMAIN t[j]
        THEN t[i] @@ [crsdef_frictionids |-> ""]
        ELSE t[i]] : t \in SeqsOf(FrictionRows, 1, MaxFrictionRows)}

WriteFriction ==
  /\ NotCalled
  /\ returned' = write_friction(given).value
  /\ Returned("write_friction", given, write_friction(given).status)

\* SpecWriteFriction: write_friction called on cross-section tables
InitWriteFriction ==
  PluginInit({TRUE}) /\ MeshInit /\ NothingReturned /\ given \in FrictionTables

NextWriteFriction == WriteFriction

SpecWriteFriction == InitWriteFriction /\ [][NextWriteFriction]_vars

(* --------------- dhydromt/dflowfm.py: setup_branches ------------------- *)
\* largest number of rows in the branches table
MaxBranchRows == 2

\* DataFrame.query of an expression `column == "value"`: the positions of the
\* rows that match
query(branches, expr) == {i \in 1..Len(branches) : branches[i][expr.column] = expr.value}

\* branches.loc[index, "branchType"] = value
set_branchType(branches, index, value) ==
  [i \in 1..Len(branches) |->
     IF i \in index THEN [branches[i] EXCEPT !.branchType = value] ELSE branches[i]]

\* setup_branches from the processed table on: the rows of channel_query are
\* typed first, and pipe_query is evaluated on the table that results
setup_branches(branches, channel_query, pipe_query) ==
  LET channels == set_branchType(branches, query(branches, channel_query), "Channel")
      pipes == set_branchType(channels, query(channels, pipe_query), "Pipe")
  IN [status |-> "ok", value |-> pipes]

\* the query expressions of the calls; the first two are the defaults of
\* channel_query and pipe_query
BranchQueries ==
  {[column |-> "branchType", value |-> "Pipe"], [column |-> "branchType", value |-> "Channel"],
   [column |-> "material", value |-> "earth"], [column |-> "material", value |-> "concrete"]}

BranchRows ==
  {[branchId |-> id, branchType |-> t, material |-> m] :
     id \in {"a"}, t \in {"Channel", "Pipe"}, m \in {"earth", "concrete"}}

SetupBranchesCalls ==
  {[branches |-> b, channel_query |-> c, pipe_query |-> p] :
     b \in SeqsOf(BranchRows, 1, MaxBranchRows), c \in BranchQueries, p \in BranchQueries}

SetupBranches ==
  /\ NotCalled
  /\ returned' = setup_branches(given.branches, given.channel_query, given.pipe_query).value
  /\ Returned("setup_branches", given,
              setup_branches(given.branches, given.channel_query, given.pipe_query).status)

\* SpecSetupBranches: setup_branches of the earliest plugin called on branch
\* tables
InitSetupBranches ==
  PluginInit({TRUE}) /\ MeshInit /\ NothingReturned /\ given \in SetupBranchesCalls

NextSetupBranches == SetupBranches

SpecSetupBranches == InitSetupBranches /\ [][NextSetupBranches]_vars

(* ------------- utils.py: read_branches_gui, write_branches_gui --------- *)
\* largest number of branches in the table written
MaxGuiRows == 3

\* branches["branchtype"].replace({"river": 0, "pipe": 2, "sewerconnection": 1})
branchtype_code(branchtype) ==
  CASE branchtype = "river" -> 0
    [] branchtype = "pipe" -> 2
    [] branchtype = "sewerconnection" -> 1
    [] OTHER -> branchtype

\* df_gui["branchtype"].replace({0: "river", 2: "pipe", 1: "sewerconnection"})
branchtype_name(code) ==
  CASE code = 0 -> "river"
    [] code = 2 -> "pipe"
    [] code = 1 -> "sewerconnection"
    [] OTHER -> code

\* write_branches_gui(gdf, savedir): the records saved in branches.gui and
\* the table gdf as the call leaves it
write_branches_gui(branches) ==
  LET table == IF \E i \in 1..Len(branches) : branches[i].branchtype \in {"pipe", "tunnel"}
                 THEN branches
                 ELSE [i \in 1..Len(branches) |->
                         [branches[i] EXCEPT !.manhole_up = "", !.manhole_dn = ""]]
  IN [status |-> "ok",
      value |-> [gdf |-> table,
                 branch |-> [i \in 1..Len(table) |->
                               [name |-> table[i].branchid,
                                branchtype |-> branchtype_code(table[i].branchtype),
                                sourceCompartmentName |-> table[i].manhole_up,
                                targetCompartmentName |-> table[i].manhole_dn]]]]

\* df_gui.drop_duplicates(subset="branchid") and gdf.merge(df_gui,
\* on="branchid", how="left")
merge_gui(branches, df_gui) ==
  [i \in 1..Len(branches) |->
     LET m == {k \in 1..Len(df_gui) :
                 /\ df_gui[k].branchid = branches[i].branchid
                 /\ \A j \in 1..(k - 1) : df_gui[j].branchid # df_gui[k].branchid}
     IN IF m = {}
          THEN branches[i] @@ [branchtype |-> "", manhole_up |-> "", manhole_dn |-> ""]
          ELSE branches[i] @@ [branchtype |-> df_gui[Min(m)].branchtype,
                               manhole_up |-> df_gui[Min(m)].manhole_up,
                               manhole_dn |-> df_gui[Min(m)].manhole_dn]]

\* read_branches_gui(gdf, fm_model) when branches.gui holds the records
\* br_list, or is missing (is_file false)
read_branches_gui(branches, is_file, br_list) ==
  LET df_gui == IF ~is_file
                  THEN [i \in 1..Len(branches) |->
                          [branchid |-> branches[i].branchid, branchtype |-> "river",
                           manhole_up |-> "", manhole_dn |-> ""]]
                  ELSE [i \in 1..Len(br_list) |->
                          [branchid |-> br_list[i].name,
                           branchtype |-> branchtype_name(br_list[i].branchtype),
                           manhole_up |-> br_list[i].sourceCompartmentName,
                           manhole_dn |-> br_list[i].targetCompartmentName]]
  IN [status |-> "ok", value |-> merge_gui(branches, df_gui)]

\* the type and the manholes of a branch: a river has none, a pipe has both
GuiKinds ==
  {<<"river", "", "">>, <<"sewerconnection", "m1", "m2">>, <<"sewerconnection", "", "">>,
   <<"pipe", "m1", "m2">>}

GuiTables ==
  {[i \in 1..Len(k) |->
      [branchid |-> "b" \o ToString(i), branchtype |-> k[i][1], manhole_up |-> k[i][2],
       manhole_dn |-> k[i][3]]] : k \in SeqsOf(GuiKinds, 1, MaxGuiRows)}

\* the branches as the network file gives them to read_branches_gui
network_branches(branches) == [i \in 1..Len(branches) |-> [branchid |-> branches[i].branchid]]

WriteBranchesGui ==
  /\ NotCalled
  /\ returned' = write_branches_gui(given).value
  /\ Returned("write_branches_gui", given, write_branches_gui(given).status)

\* the model that was written is read back
ReadBranchesGui ==
  /\ last.op = "write_branches_gui"
  /\ returned' = read_branches_gui(network_branches(given), TRUE, returned.branch).value
  /\ Returned("read_branches_gui", [gdf |-> given, is_file |-> TRUE],
              read_branches_gui(network_branches(given), TRUE, returned.branch).status)

\* a model without branches.gui is read
ReadBranchesNoGui ==
  /\ NotCalled
  /\ returned' = read_branches_gui(network_branches(given), FALSE, <<>>).value
  /\ Returned("read_branches_gui", [gdf |-> given, is_file |-> FALSE],
              read_branches_gui(network_branches(given), FALSE, <<>>).status)

\* SpecBranchesGui: branch tables written to branches.gui and read back
InitBranchesGui == PluginInit({TRUE}) /\ MeshInit /\ NothingReturned /\ given \in GuiTables

NextBranchesGui == WriteBranchesGui \/ ReadBranchesGui \/ ReadBranchesNoGui

SpecBranchesGui == InitBranchesGui /\ [][NextBranchesGui]_vars

(* ------------- hydromt/dflowfm.py: writing the native model ------------ *)
\* largest number of write calls in one behaviour
MaxWrites == 2

\* _write_mesh1d: mesh.mesh1d_add_branch(network, branches.geometry.to_list(),
\* node_distance=40) adds one network branch per geometry of the branches
\* table; no names are passed, the network holds the geometries (named here by
\* the branch they belong to)
_write_mesh1d(net, geoms) ==
  net \o [i \in 1..Len(geoms["branches"]) |-> geoms["branches"][i].branchId]

\* write_dfmmodel of hydrolib.hydromt: the 1D mesh, the friction file and the
\* cross-section files in turn; an absent layer raises KeyError in the step
\* that reads it, after the steps before it
hydromt_write_dfmmodel(writable, geoms, net, model) ==
  IF ~writable THEN [status |-> "IOError", network |-> net, dfmmodel |-> model]
  ELSE IF geoms["branches"] = <<>>
    THEN [status |-> "KeyError", network |-> net, dfmmodel |-> model]
  ELSE IF geoms["crosssections"] = <<>>
    THEN [status |-> "KeyError", network |-> _write_mesh1d(net, geoms),
          dfmmodel |-> [model EXCEPT !.frictfile = <<geoms["branches"]>>]]
  ELSE [status |-> "ok", network |-> _write_mesh1d(net, geoms),
        dfmmodel |-> [frictfile |-> <<geoms["branches"]>>,
                      crossdeffile |-> crsdef_records(geoms["crosssections"]),
                      crosslocfile |-> crsloc_records(geoms["crosssections"])]]

\* write of hydrolib.hydromt: nothing in read-only mode, else the components
\* that hold data, the native model among them
hydromt_write(writable, geoms, net, model) ==
  IF ~writable THEN [status |-> "ok", network |-> net, dfmmodel |-> model]
  ELSE hydromt_write_dfmmodel(writable, geoms, net, model)

\* the branches tables and the cross-section tables of the model that is
\* written
WrittenBranches ==
  {<<>>, <<[branchId |-> "a"]>>, <<[branchId |-> "b"]>>, <<[branchId |-> "c"]>>,
   <<[branchId |-> "a"], [branchId |-> "b"]>>, <<[branchId |-> "b"], [branchId |-> "a"]>>}

WrittenCrosssections ==
  {<<>>,
   <<[crsdef_id |-> "rect_h1.000_w30.000_cno_branch", crsdef_type |-> "rectangle",
      crsdef_branchId |-> "a", crsdef_width |-> 3000, crsdef_height |-> 100,
      crsdef_closed |-> "no", crsdef_frictionId |-> "Manning_0.023",
      crsdef_diameter |-> NoData, crsdef_numlevels |-> NoData, crsdef_levels |-> NoData,
      crsdef_flowwidths |-> NoData, crsdef_totalwidths |-> NoData, crsdef_thalweg |-> 0,
      crsloc_id |-> "a_0.00", crsloc_branchId |-> "a", crsloc_chainage |-> 0,
      crsloc_shift |-> 0, crsloc_definitionId |-> "rect_h1.000_w30.000_cno_branch"]>>}

HydromtWrote(op, out) ==
  /\ ncalls < MaxWrites
  /\ network' = out.network
  /\ dfmmodel' = out.dfmmodel
  /\ last' = [op |-> op, status |-> out.status, written |-> {}, args |-> <<>>]
  /\ ncalls' = ncalls + 1
  /\ UNCHANGED <<_write, staticgeoms, _branches, _staticmaps, mesh_vars, script_vars>>

HydromtWriteDfmmodel ==
  HydromtWrote("hydromt.write_dfmmodel",
               hydromt_write_dfmmodel(_write, staticgeoms, network, dfmmodel))

HydromtWrite ==
  HydromtWrote("hydromt.write", hydromt_write(_write, staticgeoms, network, dfmmodel))

\* SpecHydromtWrite: a model of hydrolib.hydromt whose layers are set up is
\* written, once or more
InitHydromtWrite ==
  /\ _write \in BOOLEAN
  /\ \E b \in WrittenBranches, c \in WrittenCrosssections :
       staticgeoms = [l \in Layers |-> IF l = "branches" THEN b
                                       ELSE IF l = "crosssections" THEN c ELSE <<>>]
  /\ _branches = <<>>
  /\ network = <<>>
  /\ _staticmaps = FALSE
  /\ dfmmodel = [frictfile |-> <<>>, crossdeffile |-> <<>>, crosslocfile |-> <<>>]
  /\ last = [op |-> "__init__", status |-> "ok", written |-> {}, args |-> <<>>]
  /\ ncalls = 0
  /\ MeshInit
  /\ ScriptsIdle

NextHydromtWrite == HydromtWriteDfmmodel \/ HydromtWrite

SpecHydromtWrite == InitHydromtWrite /\ [][NextHydromtWrite]_vars

(* ------------------------------ properties ----------------------------- *)
BranchSetups == {"setup_channels", "setup_rivers", "setup_pipes"}

WriteOps == {"write", "write_staticmaps", "write_staticgeoms", "write_dfmmodel"}

BranchIdsOf(rows) == [i \in 1..Len(rows) |-> rows[i].branchId]

Distinct(ids) == \A i, j \in 1..Len(ids) : i # j => ids[i] # ids[j]

\* the features a setup_* call reads from its source, after the filter
FeaturesOf(call) ==
  IF call.op = "setup_rivers" THEN read_features(call.args.fn, call.args.river_filter, "river")
  ELSE IF call.op = "setup_pipes" THEN read_features(call.args.fn, call.args.pipe_filter, "pipe")
  ELSE call.args.fn.rows

\* C1: after every call the branchId values of the branches table (and of its
\* copy in staticgeoms) are pairwise distinct, and a setup call that reaches
\* the validation with new branches that repeat a branchId, among themselves
\* or of the table, ends in InvalidInput and leaves the table as it was
C1_BranchIdsDistinct ==
  [][ /\ Distinct(BranchIdsOf(_branches'))
      /\ staticgeoms'["branches"] = _branches'
      /\ (/\ last'.op \in BranchSetups
          /\ last'.status \in {"ok", "InvalidInput"}
          /\ ~Distinct(BranchIdsOf(_branches) \o BranchIdsOf(FeaturesOf(last'))))
         => (last'.status = "InvalidInput" /\ _branches' = _branches) ]_vars

\* a setup_pipes call was rejected because one of its pipes, distinct among
\* themselves, carries the branchId of a branch set up before
C1_Witness ==
  /\ last.op = "setup_pipes" /\ last.status = "InvalidInput"
  /\ Distinct(BranchIdsOf(FeaturesOf(last)))
  /\ \E i \in 1..Len(_branches) :
       _branches[i].branchId \in Range(BranchIdsOf(FeaturesOf(last)))

\* C2: a setup_rivers or setup_pipes call that ends in the invalid-input error
\* of a validation leaves every layer of staticgeoms as it was before the call
C2_AbortLeavesStaticgeoms ==
  [][ (last'.op \in {"setup_rivers", "setup_pipes"} /\ last'.status = "InvalidInput")
      => staticgeoms' = staticgeoms ]_vars

\* C3: a setup_* call repeated with the arguments of the successful call just
\* before it succeeds and leaves staticgeoms equal to the state after the first
C3_RerunOverwrites ==
  [][ (/\ last.op \in BranchSetups /\ last.status = "ok"
       /\ last'.op = last.op /\ last'.args = last.args)
      => (last'.status = "ok" /\ staticgeoms' = staticgeoms) ]_vars

C5_WriteSkipsEmpty ==
  (/\ _write /\ last.op = "write"
   /\ _branches = <<>> /\ staticgeoms["crosssections"] = <<>>)
  => (last.status = "ok" /\ "dfmmodel" \notin last.written)

\* a source that fills invlev_up and invlev_dn for every feature
CompleteInvlev(fn) ==
  /\ {"branchId", "invlev_up", "invlev_dn"} \subseteq fn.cols
  /\ \A i \in 1..Len(fn.rows) :
       fn.rows[i].invlev_up # NoData /\ fn.rows[i].invlev_dn # NoData

\* C6: after a successful setup_pipes from a source with complete invert
\* levels, with or without a dem_fn, every pipe of the source is in the pipes
\* layer with the invlev_up and invlev_dn of the source
C6_InvertLevelsPassThrough ==
  (last.op = "setup_pipes" /\ last.status = "ok" /\ CompleteInvlev(last.args.fn))
  => \A i \in 1..Len(FeaturesOf(last)) :
       \E k \in 1..Len(staticgeoms["pipes"]) :
         /\ staticgeoms["pipes"][k].branchId = FeaturesOf(last)[i].branchId
         /\ staticgeoms["pipes"][k].invlev_up = FeaturesOf(last)[i].invlev_up
         /\ staticgeoms["pipes"][k].invlev_dn = FeaturesOf(last)[i].invlev_dn

\* the value fits the shape: one float for a circle, [width, height] for a
\* rectangle
ShapeValueFits(a) ==
  \/ a.crosssections_shape = "circle" /\ a.crosssections_value.kind = "float"
  \/ /\ a.crosssections_shape = "rectangle"
     /\ a.crosssections_value.kind = "list"
     /\ Len(a.crosssections_value.v) = 2

DefinitionOf(row) == crsdef_records(<<row>>)[1]

\* C10: the rows of the crosssections table that share a definition id (the
\* branches of identical shape) carry one and the same definition record
C10_OneDefinitionPerShape ==
  \A i, j \in 1..Len(staticgeoms["crosssections"]) :
    staticgeoms["crosssections"][i].crsdef_id = staticgeoms["crosssections"][j].crsdef_id
    => DefinitionOf(staticgeoms["crosssections"][i])
         = DefinitionOf(staticgeoms["crosssections"][j])

\* the squared distance from the 1D node to the centre of the 2D face of a link
LinkLength2(l) ==
  (_mesh1d.node_x[l[1] + 1] - _mesh2d.face_x[l[2] + 1])
    * (_mesh1d.node_x[l[1] + 1] - _mesh2d.face_x[l[2] + 1])
  + (_mesh1d.node_y[l[1] + 1] - _mesh2d.face_y[l[2] + 1])
    * (_mesh1d.node_y[l[1] + 1] - _mesh2d.face_y[l[2] + 1])

C9_NewIndicesOffset ==
  [][ (last'.op = "mesh2d_add_rectilinear" /\ Len(_mesh2d.node_x) > 0) =>
      LET a == last'.args
          generated == Rectilinear(a.nx, a.ny, a.ox, a.oy, a.dx)
          offset == Max(Range(_mesh2d.edge_nodes)) + 1
          ne == Len(_mesh2d.edge_nodes)
          nf == Len(_mesh2d.face_nodes)
          edges == SubSeq(_mesh2d'.edge_nodes, ne + 1, Len(_mesh2d'.edge_nodes))
          faces == SubSeq(_mesh2d'.face_nodes, nf + 1, Len(_mesh2d'.face_nodes))
      IN /\ edges = [k \in 1..Len(generated.edge_nodes) |-> generated.edge_nodes[k] + offset]
         /\ faces = [k \in 1..Len(generated.face_nodes) |-> generated.face_nodes[k] + offset]
         /\ (Range(edges) \cup Range(faces))
              \cap (Range(_mesh2d.edge_nodes) \cup Range(_mesh2d.face_nodes)) = {} ]_vars

\* a second rectilinear mesh was merged into the first
C9_Witness ==
  /\ last.op = "mesh2d_add_rectilinear" /\ ncalls = 2
  /\ Len(_mesh2d.nodes_per_face) >= 2
  /\ Max(Range(_mesh2d.edge_nodes)) + 1 = Len(_mesh2d.node_x)

\* the rows a call appended to the crosssections layer
AddedCrosssections ==
  SubSeq(staticgeoms'["crosssections"], Len(staticgeoms["crosssections"]) + 1,
         Len(staticgeoms'["crosssections"]))

\* C11: after a successful setup_pipes (set_branch_crosssections with
\* midpoint=False) every pipe of the call has exactly two of the location rows
\* the call added: one at chainage 0 with its invlev_up as shift and one at
\* chainage L, its length, with its invlev_dn as shift
C11_PipeEndCrosssections ==
  [][ (last'.op = "setup_pipes" /\ last'.status = "ok") =>
      \A k \in 1..Len(staticgeoms'["pipes"]) :
        LET p == staticgeoms'["pipes"][k]
            rows == SelectSeq(AddedCrosssections,
                              LAMBDA r : r.crsloc_branchId = p.branchId)
        IN p.branchId \in Range(BranchIdsOf(FeaturesOf(last'))) =>
             /\ Len(rows) = 2
             /\ \E u, d \in 1..2 :
                  /\ u # d
                  /\ rows[u].crsloc_chainage = 0 /\ rows[u].crsloc_shift = p.invlev_up
                  /\ rows[d].crsloc_chainage = p.length
                  /\ rows[d].crsloc_shift = p.invlev_dn ]_vars

\* the shapefile values a branch is matched to: those of the features nearest
\* to it among the features of the call, within the search distance
MatchedValues(id, gdf_frict) ==
  {gdf_frict[k].fricval : k \in
     {k \in 1..Len(gdf_frict) :
        \E i \in 1..Len(Net1dBranches) :
          /\ Net1dBranches[i].id = id
          /\ Abs(Net1dBranches[i].x - gdf_frict[k].x) <= buffer
          /\ \A j \in 1..Len(gdf_frict) :
               Abs(Net1dBranches[i].x - gdf_frict[k].x)
                 <= Abs(Net1dBranches[i].x - gdf_frict[j].x)}}

C13_WipeOrMerge ==
  last.op = "change_friction_shape" =>
    \A i \in 1..Len(frictfile) :
      LET key == frictfile[i].global_[1].frictionid
          old == frictfile[i].branch
          out == output_path[key].branch
          matched(r) == MatchedValues(r.branchid, last.args.gdf_frict) # {}
      IN /\ output_path[key].global_ = frictfile[i].global_
         /\ \A j \in 1..Len(old) :
              (matched(old[j]) \/ ~last.args.wipe)
                => \E k \in 1..Len(out) : out[k].branchid = old[j].branchid
         /\ \A k \in 1..Len(out) :
              \E j \in 1..Len(old) : old[j].branchid = out[k].branchid
         /\ IF last.args.wipe
              THEN \A k \in 1..Len(out) : matched(out[k])
              ELSE SelectSeq(out, LAMBDA r : ~matched(r))
                     = SelectSeq(old, LAMBDA r : ~matched(r))

\* with wipe=True a file that held a matched and an unmatched record was
\* written with the matched one only
C13_Witness ==
  /\ last.op = "change_friction_shape" /\ last.args.wipe
  /\ \E i \in 1..Len(frictfile) :
       LET old == frictfile[i].branch
           out == output_path[frictfile[i].global_[1].frictionid].branch
       IN /\ out # <<>>
          /\ \E j \in 1..Len(old) :
               \A k \in 1..Len(out) : out[k].branchid # old[j].branchid

\* C14: setup_basemaps with a bbox region and no crs argument sets the region
\* in EPSG:4326; with a geom region whose geometry has no CRS, and no crs
\* argument, it raises the error of an invalid region (AttributeError) and
\* leaves the region, and all of staticgeoms, as it was
C14_RegionCrs ==
  [][ (last'.op = "setup_basemaps" /\ last'.args.crs = 0) =>
      /\ last'.args.kind = "bbox"
           => (last'.status = "ok" /\ staticgeoms'["region"] = <<4326>>)
      /\ (last'.args.kind = "geom" /\ last'.args.geom_crs = 0)
           => (last'.status = "AttributeError" /\ staticgeoms' = staticgeoms) ]_vars

\* a geom region without CRS was refused on a model that has no region yet
C14_Witness ==
  /\ last.op = "setup_basemaps" /\ last.status = "AttributeError"
  /\ last.args.kind = "geom" /\ last.args.geom_crs = 0 /\ last.args.crs = 0
  /\ staticgeoms["region"] = <<>>

\* the function types of the forcing blocks of the boundary nodes of df
FunctionTypes ==
  {df.forcingfile[i].function :
     i \in {i \in 1..Len(df.forcingfile) : df.forcingfile[i].name \in Range(df.nodeid)}}

\* C15: read_1dboundary raises (NotImplementedError) and returns no array when
\* the forcing blocks of the boundary nodes are partly constant and partly
\* timeseries, and an array is returned only when they are all constant or
\* all timeseries
C15_MixedFunctionsRaise ==
  last.op = "read_1dboundary" =>
    /\ {"constant", "timeseries"} \subseteq FunctionTypes
         => (last.status = "NotImplementedError" /\ da_out = NoArray)
    /\ da_out # NoArray
         => /\ last.status = "ok"
            /\ FunctionTypes = {"constant"} \/ FunctionTypes = {"timeseries"}
            /\ da_out.function \in FunctionTypes

\* the call raised on a constant block and a timeseries block of two nodes
C15_Witness ==
  /\ last.op = "read_1dboundary" /\ last.status = "NotImplementedError"
  /\ FunctionTypes = {"constant", "timeseries"}
  /\ Len(df.nodeid) = 2 /\ Len(df.forcingfile) = 2

\* C16: for a his file with two or more uniformly spaced samples HisResults
\* is made without error and its time index has one entry per sample, the
\* k-th being the reference datetime of the units plus time[k] seconds
C16_TimeIndexPerSample ==
  (last.op = "HisResults" /\ Len(ds.time) >= 2) =>
    /\ last.status = "ok"
    /\ timeframe = [k \in 1..Len(ds.time) |-> fromisoformat(ds.units[3]) + ds.time[k]]

\* the values of a feature at the time steps between sdate and edate
PeriodValues(id) ==
  LET times == input_path.df.times
      sel == {k \in 1..Len(times) :
                /\ last.args.sdate = "" \/ times[k] >= strptime(last.args.sdate)
                /\ last.args.edate = "" \/ times[k] <= strptime(last.args.edate)}
  IN {<<k, input_path.df.cols[id][k]>> : k \in sel}

\* C17: a statistics_dhydro call that returns has a row for every feature of
\* the layer; with stat="" every row has a 50% column holding a median of the
\* values of the feature in the period (no more than half of them are below
\* it, no more than half above); with stat="max" the only column added to
\* those of the layer is max, holding the largest value of the feature in the
\* period
C17_StatisticsColumns ==
  (last.op = "statistics_dhydro" /\ last.status = "ok") =>
    /\ \A i \in 1..Len(input_path.layer) :
         \E k \in 1..Len(gdf) : gdf[k]["id"] = input_path.layer[i]["id"]
    /\ last.args.stat = "" =>
         \A k \in 1..Len(gdf) :
           /\ "50%" \in DOMAIN gdf[k]
           /\ LET vals == PeriodValues(gdf[k]["id"])
                  m == gdf[k]["50%"]
              IN /\ 2 * Cardinality({v \in vals : v[2] < m}) <= Cardinality(vals)
                 /\ 2 * Cardinality({v \in vals : v[2] > m}) <= Cardinality(vals)
    /\ last.args.stat = "max" =>
         \A k \in 1..Len(gdf) :
           /\ DOMAIN gdf[k] = {"id", "geometry", "max"}
           /\ \E v \in PeriodValues(gdf[k]["id"]) : v[2] = gdf[k]["max"]
           /\ \A v \in PeriodValues(gdf[k]["id"]) : v[2] <= gdf[k]["max"]

\* stat="max" over the whole series returned a feature whose largest value is
\* not its last one
C17_Witness ==
  /\ last.op = "statistics_dhydro" /\ last.status = "ok"
  /\ last.args.stat = "max" /\ last.args.sdate = "" /\ last.args.edate = ""
  /\ \E k \in 1..Len(gdf) :
       LET col == input_path.df.cols[gdf[k]["id"]]
       IN Len(col) = 3 /\ gdf[k]["max"] = 500 /\ col[3] = 100

\* C18: after every step the names registered in the 1D network are the
\* branchId values of the branches table, none of them twice in either, and a
\* setup call that calls add_branches and fails leaves both as they were
C18_NetworkMatchesTable ==
  [][ /\ Range(network') = Range(BranchIdsOf(_branches'))
      /\ Len(network') = Len(_branches')
      /\ Distinct(network') /\ Distinct(BranchIdsOf(_branches'))
      /\ (last'.op \in BranchSetups /\ last'.status # "ok")
           => (network' = network /\ _branches' = _branches) ]_vars

\* the links that the lateral call of the step has generated
GeneratedLateral ==
  contacts_compute_boundary(_mesh1d, _mesh2d, get_node_mask(_mesh1d, last'.args.branchids),
                            last'.args.max_length)

\* C19: a links1d2d_add_links_2d_to_1d_lateral call leaves the links present
\* before it in place in the four arrays, and appends to them, of the links
\* it has generated, those that cross the boundary of the 2D mesh once and
\* nearer to the face centre than the comparison distance, all of them when
\* dist_factor is None
C19_LateralKeepsCrossingLinks ==
  [][ last'.op = "links1d2d_add_links_2d_to_1d_lateral" =>
        /\ \A f \in DOMAIN _link1d2d :
             SubSeq(_link1d2d'[f], 1, Len(_link1d2d[f])) = _link1d2d[f]
        /\ _link1d2d'.link1d2d =
             _link1d2d.link1d2d \o
               SelectSeq(GeneratedLateral,
                 LAMBDA c : \/ last'.args.dist_factor = NoData
                            \/ lateral_link_kept(_mesh1d, _mesh2d, mesh_boundaries(_mesh2d), c,
                                                 last'.args.dist_factor)) ]_vars

\* C20: after any calls of the four link-generation entry points the four
\* link arrays have one length, and at each position the id and the long
\* name are those of the 1D node and the 2D face of the link at that position
C20_LinkArraysInStep ==
  /\ \A f \in DOMAIN _link1d2d : Len(_link1d2d[f]) = Len(_link1d2d.link1d2d)
  /\ \A i \in 1..Len(_link1d2d.link1d2d) :
       /\ _link1d2d.link1d2d_id[i] = ToString(_link1d2d.link1d2d[i][1]) \o "_"
                                       \o ToString(_link1d2d.link1d2d[i][2])
       /\ _link1d2d.link1d2d_long_name[i] = "link_" \o _link1d2d.link1d2d_id[i]
       /\ _link1d2d.link1d2d_contact_type[i] = 3

\* a lateral call has dropped one of the links it generated and kept another,
\* on a network that held links before
C20_Witness ==
  /\ last.op = "links1d2d_add_links_2d_to_1d_lateral" /\ ncalls = 2
  /\ last.args.dist_factor # NoData
  /\ Len(_link1d2d.link1d2d) >= 3
  /\ \E i, j \in 1..Len(_link1d2d.link1d2d) :
       _link1d2d.link1d2d[i] # _link1d2d.link1d2d[j]

\* C21: a setup_pipes call that reaches set_branch_crosssections (midpoint
\* False) succeeds, and every pipe of the call whose shape is rectangle,
\* trapezoid or circle has two of the cross-section rows the call added
C21_ThreeShapesAtPipeEnds ==
  [][ (last'.op = "setup_pipes" /\ last'.status \in {"ok", "KeyError"}) =>
        /\ last'.status = "ok"
        /\ \A k \in 1..Len(staticgeoms'["pipes"]) :
             LET p == staticgeoms'["pipes"][k]
             IN (/\ p.branchId \in Range(BranchIdsOf(FeaturesOf(last')))
                 /\ p.shape \in {"rectangle", "trapezoid", "circle"})
                  => Len(SelectSeq(AddedCrosssections,
                                   LAMBDA r : r.crsloc_branchId = p.branchId)) = 2 ]_vars

\* C22: set_point_crosssections called on points that all have the shape zw,
\* or all the shape yz, returns one row for every point snapped to a branch
C22_ZwYzPointsBuilt ==
  (/\ last.op = "set_point_crosssections"
   /\ \E shape \in {"zw", "yz"} : \A i \in 1..Len(last.args) : last.args[i].shape = shape)
    => /\ last.status = "ok"
       /\ \A i \in 1..Len(last.args) :
            last.args[i].y <= 100 =>
              Cardinality({k \in 1..Len(returned) :
                             returned[k].crsdef_id = last.args[i].Index}) = 1

\* the survey points of one cross-section, taken from the table of the call
GroupPoints(tab, id) == SelectSeq(tab, LAMBDA p : p.Index = id)

\* the orders in which the points pts can be listed
Listings(pts) ==
  {[i \in 1..Len(pts) |-> pts[p[i]]] :
     p \in {q \in [1..Len(pts) -> 1..Len(pts)] : \A i, j \in 1..Len(pts) : q[i] = q[j] => i = j}}

\* the row lists the points pts in the order s
RowLists(row, s) ==
  /\ row.crsdef_xyzCount = Len(s)
  /\ row.crsdef_xCoordinates = JoinFmt1([i \in 1..Len(s) |-> s[i].x])
  /\ row.crsdef_yCoordinates = JoinFmt1([i \in 1..Len(s) |-> s[i].y])
  /\ row.crsdef_zCoordinates = JoinFmt1([i \in 1..Len(s) |-> s[i].z])

XyzDone == last.op = "set_xyz_crosssections" /\ last.status = "ok"

FrictionCombinations ==
  UNION {{<<id, last.args[i].frictionvalue, last.args[i].frictiontype>> :
            id \in ({last.args[i].crsdef_frictionid}
                      \cup (IF "crsdef_frictionids" \in DOMAIN last.args[i]
                              THEN {last.args[i].crsdef_frictionids} ELSE {})) \ {""}} :
           i \in 1..Len(last.args)}

\* C24: after write_friction every (frictionId, value, type) combination of
\* the table stands in one file of its own, so there are as many files as
\* combinations
C24_OneFilePerCombination ==
  last.op = "write_friction" =>
    /\ Cardinality(returned.files) = Cardinality(FrictionCombinations)
    /\ \A c \in FrictionCombinations :
         \E f \in returned.files :
           /\ <<f.frictionid, f.frictionvalue, f.frictiontype>> = c
           /\ \A g \in returned.files : g.filepath = f.filepath => g = f

\* the rows of the table of the call that match the query expression
InputMatches(expr) ==
  {i \in 1..Len(last.args.branches) : last.args.branches[i][expr.column] = expr.value}

\* C25: when channel_query and pipe_query match disjoint rows of the table
\* handed to setup_branches, the rows of channel_query end as 'Channel' and
\* the rows of pipe_query end as 'Pipe'
C25_QueriesClassifyRows ==
  (/\ last.op = "setup_branches"
   /\ InputMatches(last.args.channel_query) \cap InputMatches(last.args.pipe_query) = {})
    => /\ \A i \in InputMatches(last.args.channel_query) : returned[i].branchType = "Channel"
       /\ \A i \in InputMatches(last.args.pipe_query) : returned[i].branchType = "Pipe"

ReadBack == last.op = "read_branches_gui" /\ last.args.is_file

\* C26: a table written by write_branches_gui and read back by
\* read_branches_gui has, for every branch, the branchtype and the two manhole
\* names of the table that was written
C26_GuiRoundTrip ==
  ReadBack =>
    \A i \in 1..Len(given) :
      /\ returned[i].branchid = given[i].branchid
      /\ returned[i].branchtype = given[i].branchtype
      /\ returned[i].manhole_up = given[i].manhole_up
      /\ returned[i].manhole_dn = given[i].manhole_dn

\* C27: when a rectilinear mesh is merged into a mesh that is not empty, every
\* edge-node and face-node index appended addresses, in the node arrays after
\* the merge, the node with the x and y that it addressed in the generated
\* mesh, the shift being the number of nodes of the existing mesh
C27_NewIndicesAddressSameNodes ==
  [][ (last'.op = "mesh2d_add_rectilinear" /\ Len(_mesh2d.node_x) > 0) =>
      LET a == last'.args
          generated == Rectilinear(a.nx, a.ny, a.ox, a.oy, a.dx)
          ne == Len(_mesh2d.edge_nodes)
          nf == Len(_mesh2d.face_nodes)
      IN /\ Len(_mesh2d'.edge_nodes) = ne + Len(generated.edge_nodes)
         /\ Len(_mesh2d'.face_nodes) = nf + Len(generated.face_nodes)
         /\ \A k \in 1..Len(generated.edge_nodes) :
              /\ _mesh2d'.edge_nodes[ne + k] = generated.edge_nodes[k] + Len(_mesh2d.node_x)
              /\ _mesh2d'.node_x[_mesh2d'.edge_nodes[ne + k] + 1]
                   = generated.node_x[generated.edge_nodes[k] + 1]
              /\ _mesh2d'.node_y[_mesh2d'.edge_nodes[ne + k] + 1]
                   = generated.node_y[generated.edge_nodes[k] + 1]
         /\ \A k \in 1..Len(generated.face_nodes) :
              /\ _mesh2d'.face_nodes[nf + k] = generated.face_nodes[k] + Len(_mesh2d.node_x)
              /\ _mesh2d'.node_x[_mesh2d'.face_nodes[nf + k] + 1]
                   = generated.node_x[generated.face_nodes[k] + 1]
              /\ _mesh2d'.node_y[_mesh2d'.face_nodes[nf + k] + 1]
                   = generated.node_y[generated.face_nodes[k] + 1] ]_vars

\* a mesh was merged into an existing one that lies elsewhere: the last face
\* has its first corner at another x than the first face
C27_Witness ==
  /\ last.op = "mesh2d_add_rectilinear" /\ ncalls = 2
  /\ Len(_mesh2d.nodes_per_face) >= 2
  /\ _mesh2d.node_x[_mesh2d.face_nodes[Len(_mesh2d.face_nodes) - 3] + 1]
       # _mesh2d.node_x[_mesh2d.face_nodes[1] + 1]
  /\ _mesh2d.face_nodes[Len(_mesh2d.face_nodes) - 3] >= 4

\* C28: when write_dfmmodel or write of hydrolib.hydromt follows a call of
\* one of them that ended well, the network holds afterwards what it held
\* before, every branch of the branches table exactly once
C28_SecondWriteKeepsNetwork ==
  [][ (/\ last.op \in {"hydromt.write_dfmmodel", "hydromt.write"}
       /\ last.status = "ok"
       /\ _write
       /\ last'.op \in {"hydromt.write_dfmmodel", "hydromt.write"})
      => /\ network' = network
         /\ \A i \in 1..Len(staticgeoms["branches"]) :
              Cardinality({k \in 1..Len(network') :
                             network'[k] = staticgeoms["branches"][i].branchId}) = 1 ]_vars

\* C29: with wipe=False change_friction_shape writes, for every friction
\* file, as many branch records as the file held, and every branch as often
\* as the file held it
C29_OneRecordPerOriginal ==
  (last.op = "change_friction_shape" /\ ~last.args.wipe) =>
    \A i \in 1..Len(frictfile) :
      LET old == frictfile[i].branch
          out == output_path[frictfile[i].global_[1].frictionid].branch
      IN /\ Len(out) = Len(old)
         /\ \A j \in 1..Len(old) :
              Cardinality({k \in 1..Len(out) : out[k].branchid = old[j].branchid})
                = Cardinality({k \in 1..Len(old) : old[k].branchid = old[j].branchid})

\* the forcing blocks of the boundary nodes, in the order of the forcing file
BoundaryBlocks == SelectSeq(df.forcingfile, LAMBDA f : f.name \in Range(df.nodeid))

\* C30: the array read_1dboundary returns carries factor 1 and offset 0, and
\* every value of it is the stored value * factor + offset of its block, for
\* constant blocks and for timeseries blocks alike
C30_SameScalingRule ==
  (last.op = "read_1dboundary" /\ last.status = "ok") =>
    /\ da_out.factor = 1 /\ da_out.offset = 0
    /\ \A i \in 1..Len(BoundaryBlocks) :
         LET f == BoundaryBlocks[i]
         IN IF da_out.function = "constant"
              THEN da_out.data[i] = f.datablock[1][1] * f.factor + f.offset
              ELSE \A k \in 1..Len(f.datablock) :
                     da_out.data[i][k] = f.datablock[k][2] * f.factor + f.offset

====
